---------------------------- MODULE Spec2Model ----------------------------
(***************************************************************************)
(* Model of the self-heal element resolver, core/self_heal.py.            *)
(*                                                                         *)
(* Strings are sequences of one-character strings, so that the fuzzy       *)
(* ratios, the truncations and the token sort are computed and not         *)
(* assumed.  Scores are exact fractions <<num, den>> in lowest terms.      *)
(***************************************************************************)
EXTENDS Integers, Sequences, FiniteSets, TLC

(***************************************************************************)
(* Bounds of the model.                                                    *)
(***************************************************************************)
\* longest document (number of nodes) a page is drawn with
MaxNodes == 2
\* number of find_with_healing calls made in one behaviour
MaxCalls == 2
\* number of test workers (processes) that share one heal log
MaxWorkers == 2
\* number of heals logged before the heal log is read
MaxHeals == 2

(***************************************************************************)
(* Strings.                                                                *)
(***************************************************************************)
Max(a, b) == IF a >= b THEN a ELSE b

Min(a, b) == IF a <= b THEN a ELSE b

\* s[:n]
Take(s, n) == SubSeq(s, 1, Min(n, Len(s)))

\* code points of the characters the inputs use (ordering of sorted())
CharCode(c) ==
    CASE c = " " -> 32
      [] c = "'" -> 39
      [] c = "a" -> 97
      [] c = "b" -> 98
      [] c = "c" -> 99
      [] c = "e" -> 101
      [] c = "n" -> 110
      [] c = "t" -> 116
      [] c = "x" -> 120
      [] OTHER -> 122

IsSpace(c) == c = " "

\* str.__lt__ on two strings
RECURSIVE StrLess(_, _)
StrLess(s, t) ==
    IF t = <<>> THEN FALSE
    ELSE IF s = <<>> THEN TRUE
    ELSE IF CharCode(Head(s)) # CharCode(Head(t))
         THEN CharCode(Head(s)) < CharCode(Head(t))
    ELSE StrLess(Tail(s), Tail(t))

\* str.split(): the maximal runs of non-whitespace characters, in order
RECURSIVE SplitFrom(_, _, _)
SplitFrom(s, i, cur) ==
    IF i > Len(s)
    THEN IF cur = <<>> THEN <<>> ELSE <<cur>>
    ELSE IF IsSpace(s[i])
         THEN IF cur = <<>> THEN SplitFrom(s, i + 1, <<>>)
              ELSE <<cur>> \o SplitFrom(s, i + 1, <<>>)
         ELSE SplitFrom(s, i + 1, Append(cur, s[i]))

Split(s) == SplitFrom(s, 1, <<>>)

\* " ".join(tokens)
RECURSIVE Join(_)
Join(tokens) ==
    IF tokens = <<>> THEN <<>>
    ELSE IF Len(tokens) = 1 THEN tokens[1]
    ELSE tokens[1] \o <<" ">> \o Join(Tail(tokens))

\* str.strip()
RECURSIVE LStrip(_)
LStrip(s) == IF s # <<>> /\ IsSpace(Head(s)) THEN LStrip(Tail(s)) ELSE s

RECURSIVE RStrip(_)
RStrip(s) ==
    IF s # <<>> /\ IsSpace(s[Len(s)]) THEN RStrip(SubSeq(s, 1, Len(s) - 1)) ELSE s

Strip(s) == RStrip(LStrip(s))

\* str.replace(old, new) for one-character old and new
Replace(s, old, new) == [i \in 1..Len(s) |-> IF s[i] = old THEN new ELSE s[i]]

\* sorted(tokens): insertion of one token into a sorted list, after its equals
RECURSIVE InsertToken(_, _)
InsertToken(tok, sorted) ==
    IF sorted = <<>> THEN <<tok>>
    ELSE IF StrLess(tok, Head(sorted)) THEN <<tok>> \o sorted
    ELSE <<Head(sorted)>> \o InsertToken(tok, Tail(sorted))

RECURSIVE SortTokens(_)
SortTokens(tokens) ==
    IF tokens = <<>> THEN <<>>
    ELSE InsertToken(tokens[Len(tokens)], SortTokens(SubSeq(tokens, 1, Len(tokens) - 1)))

(***************************************************************************)
(* Exact fractions.                                                        *)
(***************************************************************************)
RECURSIVE GCD(_, _)
GCD(a, b) == IF b = 0 THEN a ELSE GCD(b, a % b)

Frac(n, d) == IF n = 0 THEN <<0, 1>> ELSE <<n \div GCD(n, d), d \div GCD(n, d)>>

FAdd(p, q) == Frac(p[1] * q[2] + q[1] * p[2], p[2] * q[2])

FLess(p, q) == p[1] * q[2] < q[1] * p[2]

(***************************************************************************)
(* rapidfuzz: fuzz.ratio and fuzz.token_sort_ratio, as fractions of 1      *)
(* (the code divides the library's 0..100 value by 100.0).                 *)
(***************************************************************************)
\* length of a longest common subsequence
RECURSIVE LCS(_, _)
LCS(s, t) ==
    IF s = <<>> \/ t = <<>> THEN 0
    ELSE IF Head(s) = Head(t) THEN 1 + LCS(Tail(s), Tail(t))
    ELSE Max(LCS(Tail(s), t), LCS(s, Tail(t)))

\* normalized Indel similarity: 2*LCS/(len1+len2); two empty strings are equal
ratio(s, t) ==
    IF Len(s) + Len(t) = 0 THEN <<1, 1>>
    ELSE Frac(2 * LCS(s, t), Len(s) + Len(t))

\* the ratio of the two strings with their tokens sorted
token_sort_ratio(s, t) == ratio(Join(SortTokens(Split(s))), Join(SortTokens(Split(t))))


(***************************************************************************)
(* Module constants of core/self_heal.py.                                  *)
(***************************************************************************)
\* _DEFAULT_TAGS, in the order the collector scans them
_DEFAULT_TAGS == <<"a", "button", "input", "label", "span", "div">>

\* _WEIGHTS, in hundredths
W_text == 50
W_id == 20
W_name == 15
W_class == 10
W_aria == 5

\* truncation caps of _element_signature
CapText == 500
CapId == 200
CapName == 200
CapClass == 300
CapType == 50
CapAria == 200
\* cap of the text snippet of a synthesized XPath
CapSnippet == 120
\* number of locator words kept as the target text
CapWords == 6

(***************************************************************************)
(* Signatures, scoring, locator synthesis, locator hints.                  *)
(***************************************************************************)
\* x or y on strings: x unless it is empty
OrElse(x, y) == IF x # <<>> THEN x ELSE y

\* _element_signature(bs_elem): a document node is a record of its tag name,
\* its descendant text as get_text(separator=" ", strip=True) yields it, and
\* its attributes (class is the list of class tokens; absent attributes are empty)
_element_signature(bs_elem) ==
    [tag   |-> bs_elem.tag,
     text  |-> Take(bs_elem.text, CapText),
     id    |-> Take(bs_elem.id, CapId),
     name  |-> Take(bs_elem.name, CapName),
     class |-> Take(Join(bs_elem.class), CapClass),
     type  |-> Take(bs_elem.type, CapType),
     aria  |-> Take(OrElse(bs_elem.aria_label, bs_elem.role), CapAria)]

\* one term of the weighted sum: weight/100 * r
Term(weight, r) == Frac(weight * r[1], 100 * r[2])

\* _score_signature(target, candidate); every field of a signature is a string,
\* so no term raises
_score_signature(target, candidate) ==
    FAdd(FAdd(FAdd(FAdd(
        Term(W_text, token_sort_ratio(target.text, candidate.text)),
        Term(W_id, ratio(target.id, candidate.id))),
        Term(W_name, ratio(target.name, candidate.name))),
        Term(W_class, ratio(target.class, candidate.class))),
        Term(W_aria, ratio(target.aria, candidate.aria)))

\* mutation: the name is preferred to the id
_build_xpath_from_signature_NameFirst(sig, bs_elem) ==
    IF sig.name # <<>>
    THEN [template |-> "//*[@name='{value}']", tag |-> "*", value |-> sig.name]
    ELSE IF sig.id # <<>>
    THEN [template |-> "//*[@id='{value}']", tag |-> "*", value |-> sig.id]
    ELSE IF Strip(sig.text) # <<>>
    THEN [template |-> "//{tag}[contains(normalize-space(.), \"{value}\")]",
          tag |-> bs_elem.tag,
          value |-> Replace(Take(Strip(sig.text), CapSnippet), "'", "\"")]
    ELSE IF Split(sig.class) # <<>>
    THEN [template |-> "//{tag}[contains(@class, '{value}')]",
          tag |-> bs_elem.tag, value |-> Split(sig.class)[1]]
    ELSE [template |-> "//{tag}", tag |-> bs_elem.tag, value |-> <<>>]

\* _build_xpath_from_signature(sig, bs_elem): the XPath is the template with
\* {tag} and {value} filled in
_build_xpath_from_signature(sig, bs_elem) ==
    IF sig.id # <<>>
    THEN [template |-> "//*[@id='{value}']", tag |-> "*", value |-> sig.id]
    ELSE IF sig.name # <<>>
    THEN [template |-> "//*[@name='{value}']", tag |-> "*", value |-> sig.name]
    ELSE IF Strip(sig.text) # <<>>
    THEN [template |-> "//{tag}[contains(normalize-space(.), \"{value}\")]",
          tag |-> bs_elem.tag,
          value |-> Replace(Take(Strip(sig.text), CapSnippet), "'", "\"")]
    ELSE IF Split(sig.class) # <<>>
    THEN [template |-> "//{tag}[contains(@class, '{value}')]",
          tag |-> bs_elem.tag, value |-> Split(sig.class)[1]]
    ELSE [template |-> "//{tag}", tag |-> bs_elem.tag, value |-> <<>>]

EmptySig ==
    [tag |-> "", text |-> <<>>, id |-> <<>>, name |-> <<>>, class |-> <<>>,
     type |-> <<>>, aria |-> <<>>]

\* mutation: the id rule is tried before the two text rules
_extract_target_signature_from_locator_IdFirst(locator) ==
    IF locator.idRef # <<>> THEN [EmptySig EXCEPT !.id = locator.idRef]
    ELSE IF locator.textEq # <<>> THEN [EmptySig EXCEPT !.text = locator.textEq]
    ELSE IF locator.containsArg # <<>> THEN [EmptySig EXCEPT !.text = locator.containsArg]
    ELSE IF locator.classRefs # <<>> THEN [EmptySig EXCEPT !.class = Join(locator.classRefs)]
    ELSE IF locator.words # <<>>
    THEN [EmptySig EXCEPT !.text = Join(Take(locator.words, CapWords))]
    ELSE EmptySig

\* _extract_target_signature_from_locator(locator).  A locator is a record:
\* str names the locator string, and the other fields hold what each regular
\* expression of the parser captures in it (empty when it does not match):
\* textEq for text()='X', containsArg for contains(e, 'X'), idRef for #id or
\* @id='id', classRefs for the .class tokens, words for the tokens left when
\* punctuation is stripped
_extract_target_signature_from_locator(locator) ==
    IF locator.textEq # <<>> THEN [EmptySig EXCEPT !.text = locator.textEq]
    ELSE IF locator.containsArg # <<>> THEN [EmptySig EXCEPT !.text = locator.containsArg]
    ELSE IF locator.idRef # <<>> THEN [EmptySig EXCEPT !.id = locator.idRef]
    ELSE IF locator.classRefs # <<>> THEN [EmptySig EXCEPT !.class = Join(locator.classRefs)]
    ELSE IF locator.words # <<>>
    THEN [EmptySig EXCEPT !.text = Join(Take(locator.words, CapWords))]
    ELSE EmptySig

\* the target signature find_with_healing scores against: the hint, with an
\* empty text replaced by the text of a second parse of the same locator
TargetSig(locator) ==
    LET target_sig == _extract_target_signature_from_locator(locator)
    IN  IF target_sig.text = <<>>
        THEN [target_sig EXCEPT
                !.text = _extract_target_signature_from_locator(locator).text]
        ELSE target_sig

\* mutation: an accessibility label also keeps a node
IsDegenerate_CountsAria(sig) ==
    sig.text = <<>>
    /\ ~(sig.id # <<>> \/ sig.name # <<>> \/ sig.class # <<>> \/ sig.aria # <<>>)

\* the degenerate filter: empty text and no id, name or class
IsDegenerate(sig) ==
    sig.text = <<>> /\ ~(sig.id # <<>> \/ sig.name # <<>> \/ sig.class # <<>>)

\* soup.find_all(tag): the positions of the nodes of that tag, in document order
RECURSIVE FindAllFrom(_, _, _)
FindAllFrom(doc, tag, i) ==
    IF i > Len(doc) THEN <<>>
    ELSE IF doc[i].tag = tag THEN <<i>> \o FindAllFrom(doc, tag, i + 1)
    ELSE FindAllFrom(doc, tag, i + 1)

\* mutation: soup.find(tag), the first node of that tag only
find_all_FirstOnly(doc, tag) == Take(FindAllFrom(doc, tag, 1), 1)

find_all(doc, tag) == FindAllFrom(doc, tag, 1)

\* the inner loop of the collector over the nodes of one tag
RECURSIVE CollectNodes(_, _, _)
CollectNodes(doc, target_sig, elems) ==
    IF elems = <<>> THEN <<>>
    ELSE LET c == Head(elems)
             sig == _element_signature(doc[c])
         IN  IF IsDegenerate(sig)
             THEN CollectNodes(doc, target_sig, Tail(elems))
             ELSE <<[score |-> _score_signature(target_sig, sig), elem |-> c, sig |-> sig]>>
                  \o CollectNodes(doc, target_sig, Tail(elems))

\* the outer loop: for tag in _DEFAULT_TAGS, from the t-th tag on
RECURSIVE CollectFrom(_, _, _)
CollectFrom(doc, target_sig, t) ==
    IF t > Len(_DEFAULT_TAGS) THEN <<>>
    ELSE CollectNodes(doc, target_sig, find_all(doc, _DEFAULT_TAGS[t]))
         \o CollectFrom(doc, target_sig, t + 1)

CollectCandidates(doc, target_sig) == CollectFrom(doc, target_sig, 1)

\* mutation: a sort by ascending score
RECURSIVE InsertByScore_Ascending(_, _)
InsertByScore_Ascending(c, sorted) ==
    IF sorted = <<>> THEN <<c>>
    ELSE IF FLess(c.score, Head(sorted).score) THEN <<c>> \o sorted
    ELSE <<Head(sorted)>> \o InsertByScore_Ascending(c, Tail(sorted))

\* mutation: a sort that reverses the order of equal scores
RECURSIVE InsertByScore_BeforeEquals(_, _)
InsertByScore_BeforeEquals(c, sorted) ==
    IF sorted = <<>> THEN <<c>>
    ELSE IF ~FLess(c.score, Head(sorted).score) THEN <<c>> \o sorted
    ELSE <<Head(sorted)>> \o InsertByScore_BeforeEquals(c, Tail(sorted))

\* candidates.sort(key=lambda x: x[0], reverse=True): a stable sort, equal
\* scores keep the order they were collected in
RECURSIVE InsertByScore(_, _)
InsertByScore(c, sorted) ==
    IF sorted = <<>> THEN <<c>>
    ELSE IF FLess(Head(sorted).score, c.score) THEN <<c>> \o sorted
    ELSE <<Head(sorted)>> \o InsertByScore(c, Tail(sorted))

RECURSIVE SortByScoreDesc(_)
SortByScoreDesc(cands) ==
    IF cands = <<>> THEN <<>>
    ELSE InsertByScore(cands[Len(cands)], SortByScoreDesc(SubSeq(cands, 1, Len(cands) - 1)))

\* the ranked candidates of a document for a locator
Ranked(doc, locator) == SortByScoreDesc(CollectCandidates(doc, TargetSig(locator)))

\* mutation: best_score <= min_score, an exclusive threshold
BelowThreshold_Exclusive(best_score, min_score) == ~FLess(min_score, best_score)

\* mutation: the comparison the wrong way round
BelowThreshold_Reversed(best_score, min_score) == FLess(min_score, best_score)

\* best_score < min_score
BelowThreshold(best_score, min_score) == FLess(best_score, min_score)

(***************************************************************************)
(* Inputs: the document nodes, the documents and the requests a behaviour  *)
(* is drawn from.                                                          *)
(***************************************************************************)
Node(tag, text, id, name, class, aria_label) ==
    [tag |-> tag, text |-> text, id |-> id, name |-> name, class |-> class,
     type |-> <<>>, aria_label |-> aria_label, role |-> <<>>]

Nodes ==
    { Node("div",    <<"b", " ", "a">>, <<"a">>, <<>>,      <<>>,                   <<>>),
      Node("a",      <<"b", " ", "a">>, <<"a">>, <<>>,      <<>>,                   <<>>),
      Node("a",      <<"a", " ", "b">>, <<>>,    <<>>,      <<>>,                   <<>>),
      Node("button", <<"a", " ", "b">>, <<"a">>, <<"n">>,   <<>>,                   <<>>),
      Node("input",  <<>>,              <<>>,    <<"n">>,   <<>>,                   <<>>),
      Node("span",   <<>>,              <<>>,    <<>>,      <<>>,                   <<"x">>),
      Node("p",      <<"a", " ", "b">>, <<"a">>, <<>>,      <<>>,                   <<>>) }

\* the documents: every sequence of at most MaxNodes nodes, in document order
Docs == UNION { [1..n -> Nodes] : n \in 0..MaxNodes }

Locator(str, textEq, containsArg, idRef, classRefs, words) ==
    [str |-> str, textEq |-> textEq, containsArg |-> containsArg, idRef |-> idRef,
     classRefs |-> classRefs, words |-> words]

\* the (by, locator) pairs of the requests
Requests ==
    { [by |-> "xpath",
       locator |-> Locator("//a[text()='a b']", <<"a", " ", "b">>, <<>>, <<>>, <<>>,
                           << <<"a">>, <<"t", "e", "x", "t">>, <<"a">>, <<"b">> >>)],
      [by |-> "css selector",
       locator |-> Locator("#a", <<>>, <<>>, <<"a">>, <<>>, << <<"a">> >>)],
      [by |-> "name",
       locator |-> Locator("ab", <<>>, <<>>, <<>>, <<>>, << <<"a", "b">> >>)] }

\* the thresholds of the requests: 0, the default 0.45, and 0.80
MinScores == { <<0, 1>>, <<9, 20>>, <<4, 5>> }

(***************************************************************************)
(* State.                                                                  *)
(***************************************************************************)
VARIABLES
    page,        \* the document the driver's page_source parses to
    by,          \* the strategy of the request
    locator,     \* the locator of the request
    min_score,   \* the threshold of the current call
    persist,     \* the persist flag of the current call
    pc,          \* where the current call of find_with_healing stands
    now,         \* the number of calls started: the clock time.time() reads
    driverCalls, \* the driver interactions of the current call, in order
    directErr,   \* how the primary lookup of the current call failed
    candidates,  \* the sorted candidate list of the current call
    xpath,       \* the XPath built for the best candidate
    returned,    \* how the element the current call returned was found
    raised,      \* the message of the exception the current call raised
    logged,      \* whether the current call invoked _log_heal, and its write
    healLog,     \* the lines of HEAL_LOG
    logAtCall,   \* history: HEAL_LOG as it was when the current call began
    mode,        \* history: whether the current call is recorded or replayed
    ref,         \* history: the recorded call a replayed call is compared with
    wpc,         \* where each worker's _log_heal stands
    wpos,        \* the file offset (in lines) each worker's write goes to
    wline,       \* the line each worker is writing
    target,      \* the target signature given to _score_signature
    candidate,   \* the candidate signature given to _score_signature
    total,       \* what _score_signature returned
    raising,     \* the elements for which the scoring raises
    loggers,     \* logging's registry: the loggers by name
    got,         \* the logger get_logger returned last
    wrapper,     \* the wrapped lookup: the entry point, heal, the driver's patch
    disk,        \* the file HEAL_LOG as text
    entries,     \* what read_heal_log returned
    run          \* the runner: its arguments, pytest's exits, the manifest

\* the variables of the recording of calls, of the workers and of the scorer
replayVars == <<mode, ref>>

workerVars == <<wpc, wpos, wline>>

scoreVars == <<target, candidate, total>>

\* the variables of the faulty scorer, the logger helper, the wrappers, the
\* reader of the heal log and the runner
toolVars == <<raising, loggers, got, wrapper, disk, entries, run>>

vars ==
    <<page, by, locator, min_score, persist, pc, now, driverCalls, directErr,
      candidates, xpath, returned, raised, logged, healLog, logAtCall,
      replayVars, workerVars, scoreVars, toolVars>>

NoXpath == [template |-> "", tag |-> "", value |-> <<>>]

\* the workers
Workers == 1..MaxWorkers

\* no call has been recorded
NoRef == [recorded |-> FALSE]

\* no line is being written
NoLine == [time |-> 0]

\* nothing is recorded and no worker is writing
InitRest ==
    /\ mode = "free"
    /\ ref = NoRef
    /\ wpc = [w \in Workers |-> "idle"]
    /\ wpos = [w \in Workers |-> 0]
    /\ wline = [w \in Workers |-> NoLine]

\* no score has been computed (no fraction has the denominator 0)
NoScore == <<0, 0>>

\* the resolver on its own scores nothing apart from its candidates
InitNoScore ==
    /\ target = EmptySig
    /\ candidate = EmptySig
    /\ total = NoScore

\* the resolver before its first call
InitCall ==
    /\ InitRest
    /\ page \in Docs
    /\ \E r \in Requests : by = r.by /\ locator = r.locator
    /\ min_score = <<9, 20>>
    /\ persist = TRUE
    /\ pc = "idle"
    /\ now = 0
    /\ driverCalls = <<>>
    /\ directErr = "none"
    /\ candidates = <<>>
    /\ xpath = NoXpath
    /\ returned = "none"
    /\ raised = "none"
    /\ logged = "no"
    /\ healLog = <<>>
    /\ logAtCall = <<>>

\* no scoring is made to raise
InitNoRaise == raising = {}

\* no logger has been asked for
NoLoggers == [name \in {} |-> 0]

InitNoLogger == loggers = NoLoggers /\ got = "none"

\* no lookup goes through a wrapper
NoWrapper == [via |-> "none", heal |-> TRUE, patched |-> TRUE]

InitNoWrapper == wrapper = NoWrapper

\* HEAL_LOG does not exist and has not been read
NoFile == [exists |-> FALSE, text |-> <<>>]

\* no read has been made
NoRead == [done |-> FALSE, limited |-> FALSE, limit |-> 0, heals |-> 0, result |-> <<>>]

InitNoReader == disk = NoFile /\ entries = NoRead

\* the runner has not been started
NoRun == [pc |-> "none"]

InitNoRunner == run = NoRun

Init ==
    /\ InitCall /\ InitNoScore
    /\ InitNoRaise /\ InitNoLogger /\ InitNoWrapper /\ InitNoReader /\ InitNoRunner

\* a driver interaction and what the driver answered: find_element(strategy, what)
\* answers "found", "notfound" (NoSuchElementException, StaleElementReferenceException)
\* or "error" (any other Exception); a read of page_source answers "ok", "empty"
\* or "raises"
FindCall(strategy, what, result) ==
    [op |-> "find_element", by |-> strategy, what |-> what, result |-> result]

PageSourceCall(result) == [op |-> "page_source", by |-> "", what |-> "", result |-> result]

\* the ways a lookup fails
LookupFailures == {"notfound", "error"}

(***************************************************************************)
(* _log_heal and the steps of find_with_healing.  A step is the code up to *)
(* and including one interaction with the driver; the pure code after the  *)
(* page source is read (parse, hint, collect, score, sort, threshold,      *)
(* locator synthesis) belongs to the step that reads it.                   *)
(***************************************************************************)
\* the messages of the four raise statements of find_with_healing
FailureMessages ==
    {"Original find failed and page source unavailable",
     "No candidate elements found",
     "No healed candidate exceeding threshold",
     "Healer located candidate but driver couldn't find it by xpath/id/name"}

\* the exception class the raise statement with this message raises
ExceptionClass(message) ==
    CASE message = "Original find failed and page source unavailable"
            -> "NoSuchElementException"
      [] message = "No candidate elements found" -> "NoSuchElementException"
      [] message = "No healed candidate exceeding threshold" -> "NoSuchElementException"
      [] message = "Healer located candidate but driver couldn't find it by xpath/id/name"
            -> "NoSuchElementException"
      [] OTHER -> "none"

\* the entry _log_heal builds
HealEntry(original, healed, score) ==
    [time |-> now, original |-> original, healed |-> healed, score |-> score]

\* mutation: the file is opened for writing instead of appending
_log_heal_Truncates(original, healed, score, sinkOk) ==
    /\ healLog' = IF sinkOk THEN <<HealEntry(original, healed, score)>> ELSE healLog
    /\ logged' = IF sinkOk THEN "written" ELSE "failed"

\* _log_heal(original, healed, score): the line is appended, unless opening or
\* writing the file raises, which is swallowed
_log_heal(original, healed, score, sinkOk) ==
    /\ healLog' = IF sinkOk THEN Append(healLog, HealEntry(original, healed, score))
                  ELSE healLog
    /\ logged' = IF sinkOk THEN "written" ELSE "failed"

\* mutation: the persist flag is ignored
LogIfPersist_Always(healed, sinkOk) ==
    _log_heal([by |-> by, locator |-> locator.str], healed, candidates[1].score, sinkOk)

\* mutation: the threshold is logged in place of the winner's score
LogIfPersist_LogsThreshold(healed, sinkOk) ==
    IF persist
    THEN _log_heal([by |-> by, locator |-> locator.str], healed, min_score, sinkOk)
    ELSE UNCHANGED <<healLog, logged>>

\* if persist: _log_heal(...)
LogIfPersist(healed, sinkOk) ==
    IF persist
    THEN _log_heal([by |-> by, locator |-> locator.str], healed, candidates[1].score, sinkOk)
    ELSE UNCHANGED <<healLog, logged>>

\* candidates[0]
best_sig == candidates[1].sig

best_score == candidates[1].score

\* history: the request of the call that has ended, the driver's answers to it
\* and what it yielded
CallRecord ==
    [recorded |-> TRUE, min_score |-> min_score,
     answers |-> [i \in DOMAIN driverCalls |-> driverCalls[i].result],
     returned |-> returned, raised |-> raised,
     candidates |-> candidates, xpath |-> xpath]

\* the entry of find_with_healing(driver, by, locator, min_score, persist): a
\* call begins with nothing looked up, collected, returned or raised
Begin(ms, p, m) ==
    /\ pc \in {"idle", "done"}
    /\ min_score' = ms
    /\ persist' = p
    /\ now' = now + 1
    /\ pc' = "direct"
    /\ driverCalls' = <<>>
    /\ directErr' = "none"
    /\ candidates' = <<>>
    /\ xpath' = NoXpath
    /\ returned' = "none"
    /\ raised' = "none"
    /\ logged' = "no"
    /\ logAtCall' = healLog
    /\ mode' = m
    /\ ref' = IF mode = "record" THEN CallRecord ELSE ref
    /\ UNCHANGED <<page, by, locator, healLog, workerVars, scoreVars, toolVars>>

\* a caller calls find_with_healing(driver, by, locator, min_score, persist)
StartCall ==
    /\ now < MaxCalls
    /\ \E ms \in MinScores, p \in BOOLEAN : Begin(ms, p, "free")

\* mutation: the element found is not returned and the call falls through
DirectFound_FallsThrough ==
    /\ pc = "direct"
    /\ driverCalls' = Append(driverCalls, FindCall(by, "locator", "found"))
    /\ pc' = "fallback"
    /\ UNCHANGED <<page, by, locator, min_score, persist, now, directErr, candidates,
                   xpath, returned, raised, logged, healLog, logAtCall, replayVars, workerVars, scoreVars, toolVars>>

\* driver.find_element(by, locator) returns an element: return elem
DirectFound ==
    /\ pc = "direct"
    /\ driverCalls' = Append(driverCalls, FindCall(by, "locator", "found"))
    /\ returned' = "direct"
    /\ pc' = "done"
    /\ UNCHANGED <<page, by, locator, min_score, persist, now, directErr, candidates,
                   xpath, raised, logged, healLog,
                   logAtCall, replayVars, workerVars, scoreVars, toolVars>>

\* it raises NoSuchElementException or StaleElementReferenceException: pass
DirectNotFound ==
    /\ pc = "direct"
    /\ driverCalls' = Append(driverCalls, FindCall(by, "locator", "notfound"))
    /\ directErr' = "notfound"
    /\ pc' = "fallback"
    /\ UNCHANGED <<page, by, locator, min_score, persist, now, candidates, xpath,
                   returned, raised, logged, healLog,
                   logAtCall, replayVars, workerVars, scoreVars, toolVars>>

\* mutation: any other Exception is re-raised to the caller
DirectOtherError_Propagates ==
    /\ pc = "direct"
    /\ driverCalls' = Append(driverCalls, FindCall(by, "locator", "error"))
    /\ directErr' = "other"
    /\ raised' = "the driver's error"
    /\ pc' = "done"
    /\ UNCHANGED <<page, by, locator, min_score, persist, now, candidates, xpath,
                   returned, logged, healLog, logAtCall, replayVars, workerVars, scoreVars, toolVars>>

\* it raises any other Exception: pass, "still attempt healing path"
DirectOtherError ==
    /\ pc = "direct"
    /\ driverCalls' = Append(driverCalls, FindCall(by, "locator", "error"))
    /\ directErr' = "other"
    /\ pc' = "fallback"
    /\ UNCHANGED <<page, by, locator, min_score, persist, now, candidates, xpath,
                   returned, raised, logged, healLog,
                   logAtCall, replayVars, workerVars, scoreVars, toolVars>>

\* mutation: without the emptiness check the empty source is parsed and scanned
SnapshotUnavailable_ParsedAnyway ==
    /\ pc = "fallback"
    /\ \E how \in {"raises", "empty"} :
          driverCalls' = Append(driverCalls, PageSourceCall(how))
    /\ raised' = "No candidate elements found"
    /\ pc' = "done"
    /\ UNCHANGED <<page, by, locator, min_score, persist, now, directErr, candidates,
                   xpath, returned, logged, healLog, logAtCall, replayVars, workerVars, scoreVars, toolVars>>

\* mutation: an unavailable page source is read a second time before giving up
SnapshotUnavailable_ReadTwice ==
    /\ pc = "fallback"
    /\ \E how \in {"raises", "empty"} :
          driverCalls' = driverCalls \o <<PageSourceCall(how), PageSourceCall(how)>>
    /\ raised' = "Original find failed and page source unavailable"
    /\ pc' = "done"
    /\ UNCHANGED <<page, by, locator, min_score, persist, now, directErr, candidates,
                   xpath, returned, logged, healLog,
                   logAtCall, replayVars, workerVars, scoreVars, toolVars>>

\* driver.page_source raises or is empty: raise NoSuchElementException
SnapshotUnavailable ==
    /\ pc = "fallback"
    /\ \E how \in {"raises", "empty"} :
          driverCalls' = Append(driverCalls, PageSourceCall(how))
    /\ raised' = "Original find failed and page source unavailable"
    /\ pc' = "done"
    /\ UNCHANGED <<page, by, locator, min_score, persist, now, directErr, candidates,
                   xpath, returned, logged, healLog,
                   logAtCall, replayVars, workerVars, scoreVars, toolVars>>

\* the page source is read and parsed, and no candidate is collected
FallbackNoCandidates ==
    /\ pc = "fallback"
    /\ Ranked(page, locator) = <<>>
    /\ driverCalls' = Append(driverCalls, PageSourceCall("ok"))
    /\ candidates' = <<>>
    /\ raised' = "No candidate elements found"
    /\ pc' = "done"
    /\ UNCHANGED <<page, by, locator, min_score, persist, now, directErr, xpath,
                   returned, logged, healLog,
                   logAtCall, replayVars, workerVars, scoreVars, toolVars>>

\* ... and the best candidate scores below min_score
FallbackBelowThreshold ==
    /\ pc = "fallback"
    /\ Ranked(page, locator) # <<>>
    /\ BelowThreshold(Ranked(page, locator)[1].score, min_score)
    /\ driverCalls' = Append(driverCalls, PageSourceCall("ok"))
    /\ candidates' = Ranked(page, locator)
    /\ raised' = "No healed candidate exceeding threshold"
    /\ pc' = "done"
    /\ UNCHANGED <<page, by, locator, min_score, persist, now, directErr, xpath,
                   returned, logged, healLog,
                   logAtCall, replayVars, workerVars, scoreVars, toolVars>>

\* the list the other way round
Reversed(seq) == [i \in 1..Len(seq) |-> seq[Len(seq) + 1 - i]]

\* mutation: the candidates are ranked in an order that changes from call to call
FallbackAccepted_OrderByClock ==
    /\ pc = "fallback"
    /\ Ranked(page, locator) # <<>>
    /\ ~BelowThreshold(Ranked(page, locator)[1].score, min_score)
    /\ driverCalls' = Append(driverCalls, PageSourceCall("ok"))
    /\ candidates' = IF now % 2 = 1 THEN Ranked(page, locator)
                     ELSE Reversed(Ranked(page, locator))
    /\ xpath' = _build_xpath_from_signature(candidates'[1].sig, page[candidates'[1].elem])
    /\ pc' = "reverify"
    /\ UNCHANGED <<page, by, locator, min_score, persist, now, directErr, returned,
                   raised, logged, healLog,
                   logAtCall, replayVars, workerVars, scoreVars, toolVars>>

\* ... and the best candidate is accepted: its XPath is built
FallbackAccepted ==
    /\ pc = "fallback"
    /\ Ranked(page, locator) # <<>>
    /\ ~BelowThreshold(Ranked(page, locator)[1].score, min_score)
    /\ driverCalls' = Append(driverCalls, PageSourceCall("ok"))
    /\ candidates' = Ranked(page, locator)
    /\ xpath' = _build_xpath_from_signature(Ranked(page, locator)[1].sig,
                                            page[Ranked(page, locator)[1].elem])
    /\ pc' = "reverify"
    /\ UNCHANGED <<page, by, locator, min_score, persist, now, directErr, returned,
                   raised, logged, healLog,
                   logAtCall, replayVars, workerVars, scoreVars, toolVars>>

\* mutation: _log_heal does not swallow the error of its write
ReverifyFound_SinkErrorPropagates ==
    /\ pc = "reverify"
    /\ driverCalls' = Append(driverCalls, FindCall("xpath", "xpath", "found"))
    /\ \E sinkOk \in BOOLEAN :
          /\ LogIfPersist([xpath |-> xpath, signature |-> best_sig], sinkOk)
          /\ IF persist /\ ~sinkOk
             THEN returned' = returned /\ raised' = "OSError"
             ELSE returned' = "xpath" /\ raised' = raised
    /\ pc' = "done"
    /\ UNCHANGED <<page, by, locator, min_score, persist, now, directErr, candidates,
                   xpath,
                   logAtCall, replayVars, workerVars, scoreVars, toolVars>>

\* driver.find_element("xpath", xpath) returns an element
ReverifyFound ==
    /\ pc = "reverify"
    /\ driverCalls' = Append(driverCalls, FindCall("xpath", "xpath", "found"))
    /\ \E sinkOk \in BOOLEAN :
          LogIfPersist([xpath |-> xpath, signature |-> best_sig], sinkOk)
    /\ returned' = "xpath"
    /\ pc' = "done"
    /\ UNCHANGED <<page, by, locator, min_score, persist, now, directErr, candidates,
                   xpath, raised,
                   logAtCall, replayVars, workerVars, scoreVars, toolVars>>

\* the exception the inner fallbacks end in when none returned
RaiseUnusable ==
    /\ raised' = "Healer located candidate but driver couldn't find it by xpath/id/name"
    /\ pc' = "done"

\* mutation: the heal is logged before the lookup is known to have succeeded
ReverifyFails_LoggedFirst ==
    /\ pc = "reverify"
    /\ \E why \in LookupFailures :
          driverCalls' = Append(driverCalls, FindCall("xpath", "xpath", why))
    /\ LogIfPersist([xpath |-> xpath, signature |-> best_sig], TRUE)
    /\ IF best_sig.id # <<>> THEN pc' = "id_lookup" /\ raised' = raised
       ELSE IF best_sig.name # <<>> THEN pc' = "name_lookup" /\ raised' = raised
       ELSE RaiseUnusable
    /\ UNCHANGED <<page, by, locator, min_score, persist, now, directErr, candidates,
                   xpath, returned, logAtCall, replayVars, workerVars, scoreVars, toolVars>>

\* driver.find_element("xpath", xpath) raises: the inner try is entered
ReverifyFails ==
    /\ pc = "reverify"
    /\ \E why \in LookupFailures :
          driverCalls' = Append(driverCalls, FindCall("xpath", "xpath", why))
    /\ IF best_sig.id # <<>> THEN pc' = "id_lookup" /\ raised' = raised
       ELSE IF best_sig.name # <<>> THEN pc' = "name_lookup" /\ raised' = raised
       ELSE RaiseUnusable
    /\ UNCHANGED <<page, by, locator, min_score, persist, now, directErr, candidates,
                   xpath, returned, logged, healLog,
                   logAtCall, replayVars, workerVars, scoreVars, toolVars>>

\* mutation: the id fallback returns the element without logging the heal
IdLookupFound_NotLogged ==
    /\ pc = "id_lookup"
    /\ driverCalls' = Append(driverCalls, FindCall("id", "best_sig.id", "found"))
    /\ returned' = "id"
    /\ pc' = "done"
    /\ UNCHANGED <<page, by, locator, min_score, persist, now, directErr, candidates,
                   xpath, raised, logged, healLog, logAtCall, replayVars, workerVars, scoreVars, toolVars>>

\* driver.find_element("id", best_sig["id"]) returns an element
IdLookupFound ==
    /\ pc = "id_lookup"
    /\ driverCalls' = Append(driverCalls, FindCall("id", "best_sig.id", "found"))
    /\ \E sinkOk \in BOOLEAN :
          LogIfPersist([strategy |-> "id", value |-> best_sig.id, signature |-> best_sig],
                       sinkOk)
    /\ returned' = "id"
    /\ pc' = "done"
    /\ UNCHANGED <<page, by, locator, min_score, persist, now, directErr, candidates,
                   xpath, raised,
                   logAtCall, replayVars, workerVars, scoreVars, toolVars>>

\* mutation: after a failed id lookup the lookup by XPath is tried again
IdLookupFails_Retries ==
    /\ pc = "id_lookup"
    /\ pc' = "reverify"
    /\ driverCalls' = SubSeq(driverCalls, 1, 2)
    /\ UNCHANGED <<page, by, locator, min_score, persist, now, directErr,
                   candidates, xpath, returned, raised, logged, healLog,
                   logAtCall, replayVars, workerVars, scoreVars, toolVars>>

\* it raises: except Exception: pass leaves the inner try, the name lookup with it
IdLookupFails ==
    /\ pc = "id_lookup"
    /\ \E why \in LookupFailures :
          driverCalls' = Append(driverCalls, FindCall("id", "best_sig.id", why))
    /\ RaiseUnusable
    /\ UNCHANGED <<page, by, locator, min_score, persist, now, directErr, candidates,
                   xpath, returned, logged, healLog,
                   logAtCall, replayVars, workerVars, scoreVars, toolVars>>

\* mutation: the heal by the name fallback is recorded as a heal by the id
NameLookupFound_LogsIdStrategy ==
    /\ pc = "name_lookup"
    /\ driverCalls' = Append(driverCalls, FindCall("name", "best_sig.name", "found"))
    /\ \E sinkOk \in BOOLEAN :
          LogIfPersist([strategy |-> "id", value |-> best_sig.id,
                        signature |-> best_sig], sinkOk)
    /\ returned' = "name"
    /\ pc' = "done"
    /\ UNCHANGED <<page, by, locator, min_score, persist, now, directErr, candidates,
                   xpath, raised,
                   logAtCall, replayVars, workerVars, scoreVars, toolVars>>

\* driver.find_element("name", best_sig["name"]) returns an element
NameLookupFound ==
    /\ pc = "name_lookup"
    /\ driverCalls' = Append(driverCalls, FindCall("name", "best_sig.name", "found"))
    /\ \E sinkOk \in BOOLEAN :
          LogIfPersist([strategy |-> "name", value |-> best_sig.name,
                        signature |-> best_sig], sinkOk)
    /\ returned' = "name"
    /\ pc' = "done"
    /\ UNCHANGED <<page, by, locator, min_score, persist, now, directErr, candidates,
                   xpath, raised,
                   logAtCall, replayVars, workerVars, scoreVars, toolVars>>

\* mutation: when the last lookup fails the function falls off its end and
\* returns None
NameLookupFails_ReturnsNone ==
    /\ pc = "name_lookup"
    /\ \E why \in LookupFailures :
          driverCalls' = Append(driverCalls, FindCall("name", "best_sig.name", why))
    /\ pc' = "done"
    /\ UNCHANGED <<page, by, locator, min_score, persist, now, directErr, candidates,
                   xpath, returned, raised, logged, healLog,
                   logAtCall, replayVars, workerVars, scoreVars, toolVars>>

\* it raises
NameLookupFails ==
    /\ pc = "name_lookup"
    /\ \E why \in LookupFailures :
          driverCalls' = Append(driverCalls, FindCall("name", "best_sig.name", why))
    /\ RaiseUnusable
    /\ UNCHANGED <<page, by, locator, min_score, persist, now, directErr, candidates,
                   xpath, returned, logged, healLog,
                   logAtCall, replayVars, workerVars, scoreVars, toolVars>>

Next ==
    \/ StartCall
    \/ DirectFound
    \/ DirectNotFound
    \/ DirectOtherError
    \/ SnapshotUnavailable
    \/ FallbackNoCandidates
    \/ FallbackBelowThreshold
    \/ FallbackAccepted
    \/ ReverifyFound
    \/ ReverifyFails
    \/ IdLookupFound
    \/ IdLookupFails
    \/ NameLookupFound
    \/ NameLookupFails

Spec == Init /\ [][Next]_vars

\* the steps of a call that has begun
StepCall ==
    \/ DirectFound
    \/ DirectNotFound
    \/ DirectOtherError
    \/ SnapshotUnavailable
    \/ FallbackNoCandidates
    \/ FallbackBelowThreshold
    \/ FallbackAccepted
    \/ ReverifyFound
    \/ ReverifyFails
    \/ IdLookupFound
    \/ IdLookupFails
    \/ NameLookupFound
    \/ NameLookupFails

\* one execution of find_with_healing: the state machine has one instance per call
FirstCall == pc = "idle" /\ StartCall

NextCall == FirstCall \/ StepCall

\* each lookup and each read of the page source returns: a call that has begun
\* takes its next step
SpecFair == Init /\ [][NextCall]_vars /\ WF_vars(StepCall)

(***************************************************************************)
(* Repeated calls.  A first call with persist false is recorded; a later   *)
(* call of the same request, again with persist false, is made against the *)
(* same page and a driver that answers as it answered the recorded call.   *)
(* Another call may come in between, with persist set and threshold 0, so  *)
(* that it heals and writes the heal log whenever the driver lets it; the  *)
(* driver answers the lookups it shares with the recorded call alike.      *)
(***************************************************************************)
\* the recorded call, once it has ended
Recorded == IF mode = "record" /\ pc = "done" THEN CallRecord ELSE ref

\* the call that is recorded
StartRecorded ==
    /\ pc = "idle"
    /\ \E ms \in MinScores : Begin(ms, FALSE, "record")

\* a call in between, one that accepts any candidate and may write the heal log
StartFree ==
    /\ pc = "done" /\ mode = "record"
    /\ Begin(<<0, 1>>, TRUE, "free")

\* the recorded request is made again
StartReplay ==
    /\ pc = "done" /\ mode \in {"record", "free"}
    /\ Recorded.recorded
    /\ Begin(Recorded.min_score, FALSE, "replay")

\* the lookup responses are fixed: the driver answers the later calls as it
\* answered the recorded one
ReplayAnswers ==
    mode # "record" =>
        \A i \in DOMAIN driverCalls' :
            i <= Len(ref.answers) => driverCalls'[i].result = ref.answers[i]

NextReplay ==
    \/ StartRecorded
    \/ StartFree
    \/ StartReplay
    \/ DirectFound /\ ReplayAnswers
    \/ DirectNotFound /\ ReplayAnswers
    \/ DirectOtherError /\ ReplayAnswers
    \/ SnapshotUnavailable /\ ReplayAnswers
    \/ FallbackNoCandidates /\ ReplayAnswers
    \/ FallbackBelowThreshold /\ ReplayAnswers
    \/ FallbackAccepted /\ ReplayAnswers
    \/ ReverifyFound /\ ReplayAnswers
    \/ ReverifyFails /\ ReplayAnswers
    \/ IdLookupFound /\ ReplayAnswers
    \/ IdLookupFails /\ ReplayAnswers
    \/ NameLookupFound /\ ReplayAnswers
    \/ NameLookupFails /\ ReplayAnswers

SpecReplay == Init /\ [][NextReplay]_vars

(***************************************************************************)
(* Parallel workers.  Each worker is a process whose find_with_healing     *)
(* ended Healed with persist set and which runs _log_heal on the one       *)
(* HEAL_LOG of the working directory.  The file is a sequence of lines and *)
(* an offset counts lines.  What a write to a file opened for appending    *)
(* does when another process writes too is the platform's: the write goes  *)
(* to the end of the file as one step, or the end is sought and the write  *)
(* then goes to the offset that was found.                                 *)
(***************************************************************************)
\* the variables the workers leave alone
callVars ==
    <<page, by, locator, min_score, persist, pc, driverCalls, directErr, candidates,
      xpath, returned, raised, logAtCall, replayVars, scoreVars, toolVars>>

\* the file with this line written at this offset
WriteAt(file, pos, line) ==
    IF pos >= Len(file) THEN Append(file, line) ELSE [file EXCEPT ![pos + 1] = line]

\* a worker's call ended Healed with persist set: _log_heal builds the entry
WorkerHealed(w) ==
    /\ wpc[w] = "idle"
    /\ now < MaxWorkers * MaxCalls
    /\ Ranked(page, locator) # <<>>
    /\ now' = now + 1
    /\ wline' = [wline EXCEPT ![w] =
                    [time |-> now + 1,
                     original |-> [by |-> by, locator |-> locator.str],
                     healed |-> [strategy |-> "worker", value |-> w,
                                 signature |-> Ranked(page, locator)[1].sig],
                     score |-> Ranked(page, locator)[1].score]]
    /\ wpc' = [wpc EXCEPT ![w] = "entry"]
    /\ UNCHANGED <<wpos, healLog, logged, callVars>>

\* p.open("a") returns the file
WorkerOpens(w) ==
    /\ wpc[w] = "entry"
    /\ wpc' = [wpc EXCEPT ![w] = "opened"]
    /\ UNCHANGED <<wpos, wline, now, healLog, logged, callVars>>

\* p.open("a") or the write raises: except Exception: pass
WorkerWriteFails(w) ==
    /\ wpc[w] \in {"entry", "opened"}
    /\ wpc' = [wpc EXCEPT ![w] = "idle"]
    /\ logged' = "failed"
    /\ UNCHANGED <<wpos, wline, now, healLog, callVars>>

\* the line is written at the end of the file in one step
WorkerAppends(w) ==
    /\ wpc[w] = "opened"
    /\ healLog' = Append(healLog, wline[w])
    /\ wpc' = [wpc EXCEPT ![w] = "idle"]
    /\ UNCHANGED <<wpos, wline, now, logged, callVars>>

\* the end of the file is sought
WorkerSeeksEnd(w) ==
    /\ wpc[w] = "opened"
    /\ wpos' = [wpos EXCEPT ![w] = Len(healLog)]
    /\ wpc' = [wpc EXCEPT ![w] = "sought"]
    /\ UNCHANGED <<wline, now, healLog, logged, callVars>>

\* and the line is written at the offset found
WorkerWritesAtOffset(w) ==
    /\ wpc[w] = "sought"
    /\ healLog' = WriteAt(healLog, wpos[w], wline[w])
    /\ wpc' = [wpc EXCEPT ![w] = "idle"]
    /\ UNCHANGED <<wpos, wline, now, logged, callVars>>

NextWorkers ==
    \E w \in Workers :
        \/ WorkerHealed(w)
        \/ WorkerOpens(w)
        \/ WorkerWriteFails(w)
        \/ WorkerAppends(w)
        \/ WorkerSeeksEnd(w)
        \/ WorkerWritesAtOffset(w)

\* the workers heal the same request, one node on their pages
InitWorkers == Init /\ Len(page) = 1 /\ by = "xpath"

SpecWorkers == InitWorkers /\ [][NextWorkers]_vars

(***************************************************************************)
(* The scorer on its own: _score_signature applied to a target and a       *)
(* candidate signature.                                                    *)
(***************************************************************************)
\* the signatures: each scored field empty or not
ScoreSigs ==
    { [EmptySig EXCEPT !.text = t, !.id = i, !.name = n, !.class = c, !.aria = a] :
        t \in {<<>>, <<"a", " ", "b">>, <<"b", " ", "a">>},
        i \in {<<>>, <<"a">>}, n \in {<<>>, <<"n">>},
        c \in {<<>>, <<"c">>}, a \in {<<>>, <<"x">>} }

InitScore ==
    /\ InitCall /\ page = <<>> /\ by = "xpath"
    /\ target \in ScoreSigs
    /\ candidate \in ScoreSigs
    /\ total = NoScore
    /\ InitNoRaise /\ InitNoLogger /\ InitNoWrapper /\ InitNoReader /\ InitNoRunner

\* score = _score_signature(target_sig, sig)
Score ==
    /\ total = NoScore
    /\ total' = _score_signature(target, candidate)
    /\ UNCHANGED <<page, by, locator, min_score, persist, pc, now, driverCalls,
                   directErr, candidates, xpath, returned, raised, logged, healLog,
                   logAtCall, replayVars, workerVars, target, candidate, toolVars>>

NextScore == Score

SpecScore == InitScore /\ [][NextScore]_vars

(***************************************************************************)
(* Vocabulary of the properties.                                           *)
(***************************************************************************)
\* the driver interactions of the current call that are lookups / snapshot reads
LookupCalls == { i \in DOMAIN driverCalls : driverCalls[i].op = "find_element" }

SnapshotCalls == { i \in DOMAIN driverCalls : driverCalls[i].op = "page_source" }

\* the primary lookup of the current call has been answered, with this result
DirectAnswered(result) == driverCalls # <<>> /\ driverCalls[1].result = result

\* the snapshot of the current call has been read, with one of these results
SnapshotAnswered(results) ==
    Len(driverCalls) >= 2 /\ driverCalls[2].op = "page_source"
    /\ driverCalls[2].result \in results

\* the current call has entered, or gone through, the fallback path
TookFallback == pc \in {"fallback", "reverify", "id_lookup", "name_lookup"}
                \/ (pc = "done" /\ Len(driverCalls) >= 2)

\* a re-verification lookup of the current call (synthesized locator, id, name)
\* has found the element
Reverified == \E i \in LookupCalls : i >= 3 /\ driverCalls[i].result = "found"

\* the terminal states of a call
Success == pc = "done" /\ returned = "direct"

Healed == pc = "done" /\ returned \in {"xpath", "id", "name"}

Rejected == pc = "done" /\ raised = "No healed candidate exceeding threshold"

Exhausted ==
    pc = "done" /\ raised \in {"Original find failed and page source unavailable",
                              "No candidate elements found",
                              "Healer located candidate but driver couldn't find it by xpath/id/name"}

\* the current call has appended nothing to the heal log and has not called _log_heal
NoHealEvent == logged = "no" /\ healLog = logAtCall

\* the current call has appended exactly one record to the heal log
OneRecordAppended ==
    Len(healLog) = Len(logAtCall) + 1 /\ SubSeq(healLog, 1, Len(logAtCall)) = logAtCall

(***************************************************************************)
(* C1.  If the direct exact lookup succeeds, find_with_healing returns     *)
(* that element, appends no heal event, and performs no snapshot fetch     *)
(* and no further lookup, for every min_score and persist.                 *)
(***************************************************************************)
C1_DirectSuccessReturnsAtOnce ==
    DirectAnswered("found") =>
        /\ pc = "done"
        /\ returned = "direct"
        /\ raised = "none"
        /\ Len(driverCalls) = 1
        /\ NoHealEvent

\* a direct success with persist set and threshold 0, on a page that has a
\* candidate a fallback would have accepted
C1_Witness ==
    /\ DirectAnswered("found")
    /\ pc = "done"
    /\ persist
    /\ min_score = <<0, 1>>
    /\ Ranked(page, locator) # <<>>

(***************************************************************************)
(* C2.  As claimed: a direct lookup failing with an error that is not of   *)
(* the not-found class is propagated at once; Fallback is never entered,   *)
(* the snapshot is never fetched, no candidate is scored, no heal event    *)
(* is emitted.                                                             *)
(***************************************************************************)
C2_OtherErrorPropagates ==
    DirectAnswered("error") =>
        /\ pc = "done"
        /\ Len(driverCalls) = 1
        /\ candidates = <<>>
        /\ NoHealEvent

(***************************************************************************)
(* C2 as amended.  Such an error is swallowed and the call enters          *)
(* Fallback as after a not-found failure: the next interaction is the      *)
(* snapshot read, and the call ends in one of the outcomes of Fallback     *)
(* (Healed, Rejected, Exhausted), never with the driver's error.           *)
(***************************************************************************)
C2_OtherErrorEntersFallback ==
    DirectAnswered("error") =>
        /\ directErr = "other"
        /\ pc \in {"fallback", "reverify", "id_lookup", "name_lookup", "done"}
        /\ pc # "fallback" => Len(driverCalls) >= 2 /\ driverCalls[2].op = "page_source"
        /\ pc = "done" => Healed \/ Rejected \/ Exhausted

\* a call whose direct lookup failed with another error and that ended Healed,
\* with its heal event written
C2_Witness == DirectAnswered("error") /\ Healed /\ logged = "written"

(***************************************************************************)
(* C3.  As claimed: with persist requested, a heal event is appended to    *)
(* the heal log if and only if the call took the fallback path and a       *)
(* re-verification lookup succeeded.                                       *)
(***************************************************************************)
C3_AppendedIffHealed ==
    (pc = "done" /\ persist) =>
        (OneRecordAppended <=> (TookFallback /\ Reverified))

(***************************************************************************)
(* C3 as amended.  With persist requested, a heal event is handed to the   *)
(* sink (_log_heal is called) if and only if the call took the fallback    *)
(* path and a re-verification lookup succeeded; the event is appended to   *)
(* the heal log if and only if, in addition, the sink's write did not      *)
(* fail.  No other outcome (Success, Rejected, Exhausted) emits one.       *)
(***************************************************************************)
C3_EmittedIffHealed ==
    (pc = "done" /\ persist) =>
        /\ (logged # "no") <=> (TookFallback /\ Reverified)
        /\ (logged = "written") <=> OneRecordAppended
        /\ (logged # "written") => healLog = logAtCall
        /\ (Success \/ Rejected \/ Exhausted) => NoHealEvent
        /\ Healed <=> (TookFallback /\ Reverified)

\* a call with persist set that ended Healed through the id fallback and whose
\* event was appended
C3_Witness ==
    /\ pc = "done" /\ persist /\ returned = "id"
    /\ logged = "written" /\ OneRecordAppended

(***************************************************************************)
(* C4.  When the re-verification of the synthesized locator fails and the  *)
(* winning signature has both an id and a name, a failed id lookup is      *)
(* followed by the name lookup.                                            *)
(***************************************************************************)
C4_NameLookupAfterIdFails ==
    (/\ pc = "done"
     /\ candidates # <<>>
     /\ best_sig.id # <<>> /\ best_sig.name # <<>>
     /\ \E i \in LookupCalls :
           driverCalls[i].by = "id" /\ i >= 3 /\ driverCalls[i].result \in LookupFailures)
    => \E j \in LookupCalls : j >= 3 /\ driverCalls[j].by = "name"

(***************************************************************************)
(* C5.  As claimed: of two candidates with equal score, whatever their     *)
(* tags, the one earlier in document order precedes the other in the       *)
(* ranking; the winner among those tied for the best score is the          *)
(* earliest of them in the document.                                       *)
(***************************************************************************)
C5_TiesInDocumentOrder ==
    \A i, j \in DOMAIN candidates :
        (i < j /\ candidates[i].score = candidates[j].score)
            => candidates[i].elem < candidates[j].elem

\* the position of a tag in the scan list
TagIndex(tag) == CHOOSE t \in DOMAIN _DEFAULT_TAGS : _DEFAULT_TAGS[t] = tag

\* candidate c is scanned before candidate d: its tag comes earlier in the scan
\* list or, the tags being equal, it comes earlier in the document
ScannedBefore(c, d) ==
    \/ TagIndex(c.sig.tag) < TagIndex(d.sig.tag)
    \/ c.sig.tag = d.sig.tag /\ c.elem < d.elem

(***************************************************************************)
(* C5 as amended.  The ranking is deterministic, by score descending with  *)
(* scan order as the tie-break: of two candidates with equal score the     *)
(* one whose tag comes earlier in the scan list (a, button, input, label,  *)
(* span, div) precedes, and for equal tags the one earlier in document     *)
(* order; the winner among those tied for the best score is the first of   *)
(* them in that order.                                                     *)
(***************************************************************************)
C5_TiesInScanOrder ==
    \A i, j \in DOMAIN candidates :
        i < j =>
            /\ ~FLess(candidates[i].score, candidates[j].score)
            /\ candidates[i].score = candidates[j].score
                   => ScannedBefore(candidates[i], candidates[j])

\* two candidates of different tags tie for the best score and the winner is
\* the later of the two in the document
C5_Witness ==
    /\ Len(candidates) = 2
    /\ candidates[1].score = candidates[2].score
    /\ candidates[1].sig.tag # candidates[2].sig.tag
    /\ candidates[2].elem < candidates[1].elem

(***************************************************************************)
(* C6.  The threshold is inclusive: a best candidate whose score equals    *)
(* min_score is accepted, and the call goes on to locator synthesis and    *)
(* re-verification instead of failing as below-threshold.                  *)
(***************************************************************************)
C6_ThresholdInclusive ==
    (candidates # <<>> /\ best_score = min_score) =>
        /\ ~Rejected
        /\ pc \in {"reverify", "id_lookup", "name_lookup", "done"}
        /\ xpath = _build_xpath_from_signature(best_sig, page[candidates[1].elem])
        /\ pc # "reverify" =>
              /\ Len(driverCalls) >= 3
              /\ driverCalls[3].op = "find_element" /\ driverCalls[3].by = "xpath"

\* a best score of exactly 0.80 against the threshold 0.80, ending Healed
C6_Witness ==
    /\ candidates # <<>> /\ best_score = min_score /\ min_score = <<4, 5>>
    /\ Healed /\ returned = "xpath"

(***************************************************************************)
(* C7.  A best score strictly below the threshold ends the call Rejected   *)
(* with the below-threshold failure: no locator is synthesized, no         *)
(* re-verification lookup is issued, no element is returned, no heal       *)
(* event is emitted.                                                       *)
(***************************************************************************)
C7_BelowThresholdRejected ==
    (candidates # <<>> /\ FLess(best_score, min_score)) =>
        /\ Rejected
        /\ xpath = NoXpath
        /\ Len(driverCalls) = 2 /\ LookupCalls = {1}
        /\ returned = "none"
        /\ NoHealEvent

\* a best candidate scoring 0.35 against the default threshold 0.45, persist set
C7_Witness ==
    /\ candidates # <<>> /\ best_score = <<7, 20>> /\ min_score = <<9, 20>>
    /\ persist /\ pc = "done"

(***************************************************************************)
(* C8.  When a candidate was accepted and every re-verification lookup     *)
(* that is attempted fails, the call ends Exhausted with the               *)
(* healed-locator-unusable failure: no element is returned and no heal     *)
(* event is emitted, even with persist requested.                          *)
(***************************************************************************)
C8_UnverifiedIsExhausted ==
    (pc = "done" /\ Len(driverCalls) >= 3 /\ ~Reverified) =>
        /\ raised = "Healer located candidate but driver couldn't find it by xpath/id/name"
        /\ Exhausted
        /\ returned = "none"
        /\ NoHealEvent

\* persist set, the synthesized locator and the id fallback both failed
C8_Witness ==
    /\ pc = "done" /\ persist /\ ~Reverified
    /\ Len(driverCalls) = 4 /\ driverCalls[4].by = "id"

(***************************************************************************)
(* C9.  In Fallback, an unavailable snapshot (page_source raises or is     *)
(* empty) ends the call Exhausted with the snapshot-unavailable failure:   *)
(* no candidate is collected or scored, no further driver lookup is made,  *)
(* no heal event is emitted.                                               *)
(***************************************************************************)
C9_SnapshotUnavailableIsExhausted ==
    SnapshotAnswered({"raises", "empty"}) =>
        /\ pc = "done"
        /\ raised = "Original find failed and page source unavailable"
        /\ Exhausted
        /\ candidates = <<>>
        /\ Len(driverCalls) = 2 /\ LookupCalls = {1}
        /\ returned = "none"
        /\ NoHealEvent

\* page_source was empty, with persist set and threshold 0
C9_Witness ==
    SnapshotAnswered({"empty"}) /\ pc = "done" /\ persist /\ min_score = <<0, 1>>

\* no node of the document has a tag of interest and a text, id, name or class
NothingScoreable(doc) ==
    \A i \in DOMAIN doc :
        \/ doc[i].tag \notin { _DEFAULT_TAGS[t] : t \in DOMAIN _DEFAULT_TAGS }
        \/ (doc[i].text = <<>> /\ doc[i].id = <<>> /\ doc[i].name = <<>>
            /\ doc[i].class = <<>>)

(***************************************************************************)
(* C10.  When the scan of the document yields no candidate, the call ends  *)
(* Exhausted with the no-candidates failure whatever the threshold         *)
(* (min_score <= 0 included), with no re-verification lookup and no heal   *)
(* event.                                                                  *)
(***************************************************************************)
C10_NoCandidatesIsExhausted ==
    (SnapshotAnswered({"ok"}) /\ NothingScoreable(page)) =>
        /\ pc = "done"
        /\ raised = "No candidate elements found"
        /\ Exhausted
        /\ candidates = <<>>
        /\ Len(driverCalls) = 2 /\ LookupCalls = {1}
        /\ returned = "none"
        /\ NoHealEvent

\* a page of a degenerate span and a node of no tag of interest, threshold 0
C10_Witness ==
    /\ SnapshotAnswered({"ok"}) /\ NothingScoreable(page) /\ pc = "done"
    /\ min_score = <<0, 1>> /\ persist
    /\ \E i, j \in DOMAIN page : page[i].tag = "span" /\ page[j].tag = "p"

\* the exception raised corresponds to what made the call fail
FailureMatchesCause ==
    /\ (raised = "Original find failed and page source unavailable")
           <=> SnapshotAnswered({"raises", "empty"})
    /\ (raised = "No candidate elements found")
           <=> (SnapshotAnswered({"ok"}) /\ candidates = <<>>)
    /\ (raised = "No healed candidate exceeding threshold")
           <=> (candidates # <<>> /\ FLess(best_score, min_score))
    /\ (raised = "Healer located candidate but driver couldn't find it by xpath/id/name")
           <=> (candidates # <<>> /\ ~FLess(best_score, min_score) /\ ~Reverified)

(***************************************************************************)
(* C11 as stated.  The failures raised for snapshot-unavailable,           *)
(* no-candidates, below-threshold and healed-locator-unusable are          *)
(* distinguishable from one another by their error kind: the exception     *)
(* class of a failed call differs from the class of each other failure.    *)
(***************************************************************************)
C11_FailuresDifferByKind ==
    (pc = "done" /\ raised # "none") =>
        \A m \in FailureMessages \ {raised} :
            ExceptionClass(m) # ExceptionClass(raised)

(***************************************************************************)
(* C11, amended.  Every terminal state that is not a success is an error:  *)
(* a call that ends either returns an element or raises, never both and    *)
(* never neither; every failure is raised as the one class                 *)
(* NoSuchElementException, and the four failures differ by their message   *)
(* only, each message being raised for its own cause; no failing path      *)
(* returns an element.                                                     *)
(***************************************************************************)
C11_FailuresDifferByMessageOnly ==
    pc = "done" =>
        /\ (returned = "none") # (raised = "none")
        /\ raised # "none" =>
              /\ raised \in FailureMessages
              /\ ExceptionClass(raised) = "NoSuchElementException"
              /\ returned = "none"
              /\ FailureMatchesCause

\* the name lookup, the last resort, failed
C11_Witness ==
    /\ pc = "done" /\ raised \in FailureMessages
    /\ driverCalls[Len(driverCalls)].by = "name"
    /\ driverCalls[Len(driverCalls)].result \in LookupFailures

(***************************************************************************)
(* C13.  A failure of the heal log sink (the append raises) never changes  *)
(* the outcome: the call whose write failed still ends Healed, returns the *)
(* element its last re-verification lookup found, and raises nothing.      *)
(***************************************************************************)
C13_SinkFailureKeepsOutcome ==
    logged = "failed" =>
        /\ Healed
        /\ raised = "none"
        /\ driverCalls[Len(driverCalls)].result = "found"
        /\ returned = driverCalls[Len(driverCalls)].by
        /\ healLog = logAtCall

\* the write failed after the synthesized locator had found the element
C13_Witness == logged = "failed" /\ pc = "done" /\ returned = "xpath"

(***************************************************************************)
(* C15.  The heal log is append-only: every step leaves the records that   *)
(* were in the log in place, unchanged and in the same position, and only  *)
(* ever adds records at the end.                                           *)
(***************************************************************************)
C15_AppendOnly ==
    [][/\ Len(healLog') >= Len(healLog)
       /\ SubSeq(healLog', 1, Len(healLog)) = healLog]_vars

\* a second heal was recorded after a first
C15_Witness ==
    pc = "done" /\ Len(logAtCall) = 1 /\ Len(healLog) = 2 /\ logged = "written"

(***************************************************************************)
(* C16.  With persist false a call never modifies the heal log, whatever   *)
(* its outcome: the log is what it was when the call began and _log_heal   *)
(* was not invoked.                                                        *)
(***************************************************************************)
C16_NoPersistLeavesLog ==
    (pc # "idle" /\ ~persist) => (healLog = logAtCall /\ logged = "no")

\* healed by the name fallback with persist false, an earlier heal in the log
C16_Witness ==
    Healed /\ ~persist /\ returned = "name" /\ healLog # <<>>

(***************************************************************************)
(* C18.  Resolution is read-only with respect to the document: the only    *)
(* interactions with the driver are find_element lookups and reads of the  *)
(* page source, the page source is read at most once per call, and no step *)
(* changes the page.                                                       *)
(***************************************************************************)
C18_ReadOnly ==
    /\ [](/\ \A i \in DOMAIN driverCalls :
                driverCalls[i].op \in {"find_element", "page_source"}
          /\ Cardinality(SnapshotCalls) <= 1)
    /\ [][page' = page]_vars

\* a call that read the page source and then made all three lookups
C18_Witness ==
    /\ pc = "done" /\ Cardinality(SnapshotCalls) = 1
    /\ Cardinality(LookupCalls) = 3 /\ page # <<>>

(***************************************************************************)
(* C20 as stated.  Every record of the heal log has the fields time,       *)
(* original holding {strategy, locator} and healed holding {locator,       *)
(* signature, score}, score and signature being the winning candidate's.   *)
(***************************************************************************)
C20_RecordFieldsAsSpecified ==
    \A i \in DOMAIN healLog :
        /\ DOMAIN healLog[i] = {"time", "original", "healed"}
        /\ DOMAIN healLog[i].original = {"strategy", "locator"}
        /\ DOMAIN healLog[i].healed = {"locator", "signature", "score"}
        /\ healLog[i].healed.score = Ranked(page, locator)[1].score
        /\ healLog[i].healed.signature = Ranked(page, locator)[1].sig

(***************************************************************************)
(* C20, amended.  Every record of the heal log has the fields time,        *)
(* original, healed and score: original holds {by, locator} of the         *)
(* request, healed holds {xpath, signature} for a heal by the synthesized  *)
(* locator and {strategy, value, signature} for a heal by the id or name   *)
(* fallback, signature is the winning candidate's signature, and score, a  *)
(* field of the record and not of healed, is the winning candidate's       *)
(* score.  The values are stated of the record a call has just written.    *)
(***************************************************************************)
C20_RecordFields ==
    /\ \A i \in DOMAIN healLog :
          /\ DOMAIN healLog[i] = {"time", "original", "healed", "score"}
          /\ healLog[i].time \in 1..now
          /\ healLog[i].original = [by |-> by, locator |-> locator.str]
          /\ DOMAIN healLog[i].healed \in
                {{"xpath", "signature"}, {"strategy", "value", "signature"}}
    /\ logged = "written" =>
          /\ healLog # <<>>
          /\ healLog[Len(healLog)].time = now
          /\ healLog[Len(healLog)].healed.signature = best_sig
          /\ healLog[Len(healLog)].score = best_score
          /\ returned = "xpath" =>
                healLog[Len(healLog)].healed = [xpath |-> xpath, signature |-> best_sig]
          /\ returned \in {"id", "name"} =>
                healLog[Len(healLog)].healed =
                    [strategy |-> returned, value |-> best_sig[returned],
                     signature |-> best_sig]

\* a record of a heal by the synthesized locator and one of a heal by the id fallback
C20_Witness ==
    /\ Len(healLog) = 2
    /\ "xpath" \in DOMAIN healLog[1].healed
    /\ "strategy" \in DOMAIN healLog[2].healed
    /\ healLog[2].score # <<1, 1>>

C14_AppendsSerialized ==
    ((\A w \in Workers : wpc[w] = "idle") /\ logged # "failed") =>
        /\ Len(healLog) = now
        /\ \A t \in 1..now : \E i \in DOMAIN healLog : healLog[i].time = t

\* the steps find_with_healing can take from one position to the next
Edges ==
    {<<"idle", "direct">>, <<"done", "direct">>,
     <<"direct", "done">>, <<"direct", "fallback">>,
     <<"fallback", "done">>, <<"fallback", "reverify">>,
     <<"reverify", "done">>, <<"reverify", "id_lookup">>, <<"reverify", "name_lookup">>,
     <<"id_lookup", "done">>, <<"name_lookup", "done">>}

\* a step goes along an edge
EdgeTaken == (<<pc, pc'>> \in Edges)

(***************************************************************************)
(* C17.  Every call terminates, given that each lookup and each read of    *)
(* the page source returns, and follows Direct -> Success or Direct ->     *)
(* Fallback -> {Healed, Rejected, Exhausted}: a call that has begun ends;  *)
(* it ends in exactly one of Success, Healed, Rejected and Exhausted; its  *)
(* steps are those of the state machine; Fallback is entered only after    *)
(* the direct lookup failed; Healed is reached only after the best score   *)
(* met the threshold and a re-verification lookup found the element.       *)
(***************************************************************************)
C17_TerminatesAlongStateMachine ==
    /\ [](/\ pc = "done" =>
                Cardinality({ t \in {"Success", "Healed", "Rejected", "Exhausted"} :
                                 \/ t = "Success" /\ Success
                                 \/ t = "Healed" /\ Healed
                                 \/ t = "Rejected" /\ Rejected
                                 \/ t = "Exhausted" /\ Exhausted }) = 1
          /\ TookFallback =>
                driverCalls[1].op = "find_element"
                /\ driverCalls[1].result \in LookupFailures
          /\ Healed =>
                /\ candidates # <<>>
                /\ ~FLess(best_score, min_score)
                /\ Reverified
                /\ TookFallback)
    /\ [][EdgeTaken]_vars
    /\ (pc \notin {"idle", "done"}) ~> (pc = "done")

\* a call that went the longest way: direct, fallback, XPath, id, and healed
C17_Witness ==
    /\ Healed /\ returned = "id" /\ Len(driverCalls) = 4
    /\ driverCalls[1].result = "error"

\* a signature is the other's equal in every scored field
SameScoredFields(s, t) ==
    /\ s.text = t.text /\ s.id = t.id /\ s.name = t.name
    /\ s.class = t.class /\ s.aria = t.aria

\* a signature is empty in every scored field
EmptyScoredFields(s) == SameScoredFields(s, EmptySig)

(***************************************************************************)
(* C19 as stated.  For every target and candidate signature the score is   *)
(* in [0,1]; a candidate identical to the target in every scored field     *)
(* scores 1.0; a candidate empty in every scored field scores 0.0.         *)
(***************************************************************************)
C19_ScoreOfIdenticalAndOfEmpty ==
    total # NoScore =>
        /\ ~FLess(total, <<0, 1>>) /\ ~FLess(<<1, 1>>, total)
        /\ SameScoredFields(target, candidate) => total = <<1, 1>>
        /\ EmptyScoredFields(candidate) => total = <<0, 1>>

(***************************************************************************)
(* C22.  The winner taken after scoring is a candidate of maximal score:   *)
(* no candidate scores strictly more than the head of the sorted list, so  *)
(* a call is rejected as below the threshold only when every candidate     *)
(* scores below it, and a call that goes on to re-verify has a winner that *)
(* meets it.                                                               *)
(***************************************************************************)
C22_WinnerIsMaximal ==
    candidates # <<>> =>
        /\ \A i \in DOMAIN candidates : ~FLess(best_score, candidates[i].score)
        /\ Rejected => \A i \in DOMAIN candidates : FLess(candidates[i].score, min_score)
        /\ ~Rejected => ~FLess(best_score, min_score)

\* rejected at 0.80 with two candidates of different scores
C22_Witness ==
    /\ Rejected /\ Len(candidates) = 2
    /\ FLess(candidates[2].score, candidates[1].score)
    /\ FLess(<<0, 1>>, candidates[2].score)

(***************************************************************************)
(* C24.  When a call ends Healed with persist requested, the event         *)
(* recorded names the lookup that re-verified: the synthesized locator, or *)
(* the id (name) strategy and value when the id (name) fallback found the  *)
(* element.  A step appends an event only when its lookup has found the    *)
(* element, and it is the step that returns that element.                  *)
(***************************************************************************)
C24_EventNamesTheLookup ==
    [][healLog' # healLog =>
          /\ persist
          /\ healLog' = Append(healLog, healLog'[Len(healLog')])
          /\ driverCalls'[Len(driverCalls')].result = "found"
          /\ driverCalls'[Len(driverCalls')].by = returned'
          /\ returned = "none" /\ returned' \in {"xpath", "id", "name"}
          /\ pc' = "done"
          /\ IF returned' = "xpath"
             THEN healLog'[Len(healLog')].healed = [xpath |-> xpath, signature |-> best_sig]
             ELSE healLog'[Len(healLog')].healed =
                      [strategy |-> returned', value |-> best_sig[returned'],
                       signature |-> best_sig]]_vars

\* the name fallback healed and its event was written
C24_Witness ==
    /\ Healed /\ persist /\ returned = "name" /\ logged = "written"
    /\ healLog[Len(healLog)].healed.strategy = "name"

(***************************************************************************)
(* The collector on its own, with a scorer that may raise: the scan of     *)
(* the document over _DEFAULT_TAGS, then the sort.                         *)
(***************************************************************************)
\* the nodes of the scanned documents: every way a node is kept or skipped
ScanNodes ==
    { Node("a",      <<"a", " ", "b">>, <<>>,    <<>>,    <<>>,                   <<>>),
      Node("button", <<>>,              <<"a">>, <<>>,    <<>>,                   <<>>),
      Node("input",  <<>>,              <<>>,    <<"n">>, <<>>,                   <<>>),
      Node("label",  <<>>,              <<>>,    <<>>,    << <<"c">>, <<"e">> >>, <<>>),
      Node("span",   <<>>,              <<>>,    <<>>,    <<>>,                   <<"x">>),
      Node("div",    <<>>,              <<>>,    <<>>,    <<>>,                   <<>>),
      Node("p",      <<"a", " ", "b">>, <<"a">>, <<>>,    <<>>,                   <<>>),
      Node("td",     <<>>,              <<>>,    <<>>,    << <<"c">> >>,          <<>>) }

ScanDocs == UNION { [1..n -> ScanNodes] : n \in 0..MaxNodes }

\* the fallback has parsed the page; the scoring of the nodes in raising raises
InitCollect ==
    /\ InitRest /\ InitNoScore
    /\ InitNoLogger /\ InitNoWrapper /\ InitNoReader /\ InitNoRunner
    /\ page \in ScanDocs
    /\ raising \in SUBSET DOMAIN page
    /\ \E r \in Requests : by = r.by /\ locator = r.locator
    /\ min_score = <<9, 20>>
    /\ persist = TRUE
    /\ pc = "parsed"
    /\ now = 0
    /\ driverCalls = <<>>
    /\ directErr = "none"
    /\ candidates = <<>>
    /\ xpath = NoXpath
    /\ returned = "none"
    /\ raised = "none"
    /\ logged = "no"
    /\ healLog = <<>>
    /\ logAtCall = <<>>

\* _score_signature when a term may raise: except Exception: return 0.0
ScoreOrZero(target_sig, sig, raises) ==
    IF raises THEN <<0, 1>> ELSE _score_signature(target_sig, sig)

\* mutation: a candidate whose scoring raised is left out
RECURSIVE CollectNodesRaising_Drops(_, _, _, _)
CollectNodesRaising_Drops(doc, target_sig, elems, bad) ==
    IF elems = <<>> THEN <<>>
    ELSE LET c == Head(elems)
             sig == _element_signature(doc[c])
         IN  IF IsDegenerate(sig) \/ c \in bad
             THEN CollectNodesRaising_Drops(doc, target_sig, Tail(elems), bad)
             ELSE <<[score |-> ScoreOrZero(target_sig, sig, c \in bad),
                     elem |-> c, sig |-> sig]>>
                  \o CollectNodesRaising_Drops(doc, target_sig, Tail(elems), bad)

\* the inner loop of the collector when the scoring of the nodes in bad raises
RECURSIVE CollectNodesRaising(_, _, _, _)
CollectNodesRaising(doc, target_sig, elems, bad) ==
    IF elems = <<>> THEN <<>>
    ELSE LET c == Head(elems)
             sig == _element_signature(doc[c])
         IN  IF IsDegenerate(sig)
             THEN CollectNodesRaising(doc, target_sig, Tail(elems), bad)
             ELSE <<[score |-> ScoreOrZero(target_sig, sig, c \in bad),
                     elem |-> c, sig |-> sig]>>
                  \o CollectNodesRaising(doc, target_sig, Tail(elems), bad)

\* the outer loop over _DEFAULT_TAGS, from the t-th tag on
RECURSIVE CollectFromRaising(_, _, _, _)
CollectFromRaising(doc, target_sig, t, bad) ==
    IF t > Len(_DEFAULT_TAGS) THEN <<>>
    ELSE CollectNodesRaising(doc, target_sig, find_all(doc, _DEFAULT_TAGS[t]), bad)
         \o CollectFromRaising(doc, target_sig, t + 1, bad)

\* the two loops collect the candidates
Collect ==
    /\ pc = "parsed"
    /\ candidates' = CollectFromRaising(page, TargetSig(locator), 1, raising)
    /\ pc' = "collected"
    /\ UNCHANGED <<page, by, locator, min_score, persist, now, driverCalls, directErr,
                   xpath, returned, raised, logged, healLog, logAtCall,
                   replayVars, workerVars, scoreVars, toolVars>>

\* candidates.sort(key=lambda x: x[0], reverse=True)
Sort ==
    /\ pc = "collected"
    /\ candidates' = SortByScoreDesc(candidates)
    /\ pc' = "sorted"
    /\ UNCHANGED <<page, by, locator, min_score, persist, now, driverCalls, directErr,
                   xpath, returned, raised, logged, healLog, logAtCall,
                   replayVars, workerVars, scoreVars, toolVars>>

NextCollect == Collect \/ Sort

SpecCollect == InitCollect /\ [][NextCollect]_vars

\* the elements of a list of candidates
Elems(cands) == { cands[i].elem : i \in DOMAIN cands }

\* the nodes of the page that are to be candidates: one of the six tags, and
\* a text, an id, a name or a class
Qualifying ==
    { n \in DOMAIN page :
        /\ page[n].tag \in {"a", "button", "input", "label", "span", "div"}
        /\ ~(/\ page[n].text = <<>>
             /\ page[n].id = <<>> /\ page[n].name = <<>> /\ page[n].class = <<>>) }

(***************************************************************************)
(* C26.  The candidates collected are exactly the nodes of the page whose  *)
(* tag is one of a, button, input, label, span, div and that are not       *)
(* degenerate (text empty and id, name and class all empty); each such     *)
(* node is collected once, with its own signature, and the sort keeps the  *)
(* same candidates.                                                        *)
(***************************************************************************)
C26_CandidatesAreQualifyingNodes ==
    pc \in {"collected", "sorted"} =>
        /\ Elems(candidates) = Qualifying
        /\ Len(candidates) = Cardinality(Qualifying)
        /\ \A i \in DOMAIN candidates :
              candidates[i].sig = _element_signature(page[candidates[i].elem])

\* a node with nothing but a class is kept, one with nothing but an
\* accessibility label is skipped
C26_Witness ==
    /\ pc = "collected" /\ Len(page) = 2 /\ raising = {}
    /\ page[1].tag = "span" /\ page[1].aria_label # <<>>
    /\ page[2].tag = "label" /\ page[2].class # <<>>
    /\ Elems(candidates) = {2}

(***************************************************************************)
(* C27.  When the scoring of a candidate raises, that candidate scores 0.0 *)
(* and stays in the list; every other candidate has the score it has when  *)
(* nothing raises, in the same place; the collection and the sort go on.   *)
(***************************************************************************)
C27_ScoringErrorIsZeroForThatCandidate ==
    LET clean == CollectCandidates(page, TargetSig(locator))
    IN  /\ pc = "collected" =>
            /\ Len(candidates) = Len(clean)
            /\ \A i \in DOMAIN candidates :
                  /\ candidates[i].elem = clean[i].elem
                  /\ candidates[i].sig = clean[i].sig
                  /\ candidates[i].score =
                        IF clean[i].elem \in raising THEN <<0, 1>> ELSE clean[i].score
        /\ pc = "sorted" =>
            /\ Len(candidates) = Len(clean)
            /\ \A i \in DOMAIN clean : \E j \in DOMAIN candidates :
                  /\ candidates[j].elem = clean[i].elem
                  /\ candidates[j].score =
                        IF clean[i].elem \in raising THEN <<0, 1>> ELSE clean[i].score
        /\ raised = "none"

\* the scoring of the first of two candidates raised: it is ranked last with
\* 0.0, behind the other, which kept its score
C27_Witness ==
    /\ pc = "sorted" /\ Len(candidates) = 2 /\ raising = {1}
    /\ page[1].tag = "a" /\ page[2].tag = "button"
    /\ candidates[2].elem = 1 /\ candidates[2].score = <<0, 1>>
    /\ candidates[1].elem = 2 /\ FLess(<<0, 1>>, candidates[1].score)

(***************************************************************************)
(* The two helpers on their own: the locator synthesis applied to the      *)
(* signature of a node, the hint parser applied to a locator.              *)
(***************************************************************************)
\* the nodes a locator is synthesized for: every combination of an empty or
\* non-empty id, name, text and class, on two tags
XpathNodes ==
    { Node(tag, text, id, name, class, <<>>) :
        tag \in {"a", "p"},
        text \in {<<>>, <<"a", " ", "b">>, <<"a", "'">>},
        id \in {<<>>, <<"a">>},
        name \in {<<>>, <<"n">>},
        class \in {<<>>, << <<"c">>, <<"e">> >>} }

\* the locators parsed for a hint, with what the regular expressions of the
\* parser capture in each; several match more than one rule
HintLocators ==
    { Locator("//a[text()='b'][@id='a']", <<"b">>, <<>>, <<"a">>, <<>>,
              << <<"a">>, <<"t", "e", "x", "t">>, <<"b">>, <<"i", "d">>, <<"a">> >>),
      Locator("//a[text()='b' and contains(@class,'c')]", <<"b">>, <<"c">>, <<>>, <<>>,
              << <<"a">>, <<"t", "e", "x", "t">>, <<"b">>, <<"a", "n", "d">>,
                 <<"c", "o", "n", "t", "a", "i", "n", "s">>,
                 <<"c", "l", "a", "s", "s">>, <<"c">> >>),
      Locator("//a[contains(.,'b')][@id='a']", <<>>, <<"b">>, <<"a">>, <<>>,
              << <<"a">>, <<"c", "o", "n", "t", "a", "i", "n", "s">>, <<"b">>,
                 <<"i", "d">>, <<"a">> >>),
      Locator("//p[contains(.,'b')]/a.c", <<>>, <<"b">>, <<>>, << <<"c">> >>,
              << <<"p">>, <<"c", "o", "n", "t", "a", "i", "n", "s">>, <<"b">>,
                 <<"a">>, <<"c">> >>),
      Locator("a.c#a", <<>>, <<>>, <<"a">>, << <<"c">> >>,
              << <<"a">>, <<"c">>, <<"a">> >>),
      Locator("a.c.e", <<>>, <<>>, <<>>, << <<"c">>, <<"e">> >>,
              << <<"a">>, <<"c">>, <<"e">> >>),
      Locator("a b c d e f g", <<>>, <<>>, <<>>, <<>>,
              << <<"a">>, <<"b">>, <<"c">>, <<"d">>, <<"e">>, <<"f">>, <<"g">> >>),
      Locator("//*", <<>>, <<>>, <<>>, <<>>, <<>>),
      Locator(" #a ", <<>>, <<>>, <<"a">>, <<>>, << <<"a">> >>) }
    \cup { r.locator : r \in Requests }

\* a node and a locator are given; no helper has been applied
InitHelpers ==
    /\ InitRest
    /\ InitNoRaise /\ InitNoLogger /\ InitNoWrapper /\ InitNoReader /\ InitNoRunner
    /\ \E bs_elem \in XpathNodes : page = <<bs_elem>>
    /\ locator \in HintLocators
    /\ by = "xpath"
    /\ target = EmptySig
    /\ candidate = EmptySig
    /\ total = NoScore
    /\ min_score = <<9, 20>>
    /\ persist = TRUE
    /\ pc = "idle"
    /\ now = 0
    /\ driverCalls = <<>>
    /\ directErr = "none"
    /\ candidates = <<>>
    /\ xpath = NoXpath
    /\ returned = "none"
    /\ raised = "none"
    /\ logged = "no"
    /\ healLog = <<>>
    /\ logAtCall = <<>>

\* xpath = _build_xpath_from_signature(best_sig, best_bs_elem), the signature
\* being that of the node
BuildXpath ==
    /\ xpath = NoXpath
    /\ candidate' = _element_signature(page[1])
    /\ xpath' = _build_xpath_from_signature(candidate', page[1])
    /\ UNCHANGED <<page, by, locator, min_score, persist, pc, now, driverCalls, directErr,
                   candidates, returned, raised, logged, healLog, logAtCall,
                   replayVars, workerVars, target, total, toolVars>>

\* target_sig = _extract_target_signature_from_locator(locator)
Hint ==
    /\ pc = "idle"
    /\ target' = _extract_target_signature_from_locator(locator)
    /\ pc' = "hinted"
    /\ UNCHANGED <<page, by, locator, min_score, persist, now, driverCalls, directErr,
                   candidates, xpath, returned, raised, logged, healLog, logAtCall,
                   replayVars, workerVars, candidate, total, toolVars>>

NextHelpers == BuildXpath \/ Hint

SpecHelpers == InitHelpers /\ [][NextHelpers]_vars

(***************************************************************************)
(* C23.  The locator synthesized for a node follows the preference order:  *)
(* the exact id if the id is non-empty; else the exact name if the name is *)
(* non-empty; else containment of the text on the node's tag if the text   *)
(* is non-empty; else containment of the first class token on the node's   *)
(* tag if there is a class; else the bare tag.  A lower form is produced   *)
(* only when every higher field is empty.                                  *)
(***************************************************************************)
C23_XpathPreferenceOrder ==
    xpath # NoXpath =>
        LET n == page[1]
        IN  /\ n.id # <<>> =>
                 xpath = [template |-> "//*[@id='{value}']", tag |-> "*", value |-> n.id]
            /\ (n.id = <<>> /\ n.name # <<>>) =>
                 xpath = [template |-> "//*[@name='{value}']", tag |-> "*",
                          value |-> n.name]
            /\ (n.id = <<>> /\ n.name = <<>> /\ n.text # <<>>) =>
                 /\ xpath.template = "//{tag}[contains(normalize-space(.), \"{value}\")]"
                 /\ xpath.tag = n.tag
                 /\ Len(xpath.value) = Len(n.text)
                 /\ \A i \in DOMAIN n.text :
                       xpath.value[i] = IF n.text[i] = "'" THEN "\"" ELSE n.text[i]
            /\ (n.id = <<>> /\ n.name = <<>> /\ n.text = <<>> /\ n.class # <<>>) =>
                 xpath = [template |-> "//{tag}[contains(@class, '{value}')]",
                          tag |-> n.tag, value |-> n.class[1]]
            /\ (n.id = <<>> /\ n.name = <<>> /\ n.text = <<>> /\ n.class = <<>>) =>
                 xpath = [template |-> "//{tag}", tag |-> n.tag, value |-> <<>>]

\* a node with a name, a text and a class but no id gets the name form
C23_Witness ==
    /\ xpath.template = "//*[@name='{value}']"
    /\ page[1].id = <<>> /\ page[1].text # <<>> /\ page[1].class # <<>>

\* the target has this one field and nothing else
OnlyField(sig, field, value) == sig = [EmptySig EXCEPT ![field] = value]

(***************************************************************************)
(* C25.  The hint parser applies its rules in priority order and the first *)
(* that matches decides: text()= equality gives the text; else contains()  *)
(* gives the text; else an id reference gives the id; else the class       *)
(* references give the class, joined by spaces; else the first 6 tokens of *)
(* the locator stripped of punctuation give the text, joined by spaces.    *)
(* Every other field of the result is empty, whatever lower rules match.   *)
(***************************************************************************)
C25_FirstMatchingRuleDecides ==
    pc = "hinted" =>
        LET l == locator
        IN  /\ l.textEq # <<>> => OnlyField(target, "text", l.textEq)
            /\ (l.textEq = <<>> /\ l.containsArg # <<>>) =>
                  OnlyField(target, "text", l.containsArg)
            /\ (l.textEq = <<>> /\ l.containsArg = <<>> /\ l.idRef # <<>>) =>
                  OnlyField(target, "id", l.idRef)
            /\ (l.textEq = <<>> /\ l.containsArg = <<>> /\ l.idRef = <<>>
                   /\ l.classRefs # <<>>) =>
                  OnlyField(target, "class", Join(l.classRefs))
            /\ (l.textEq = <<>> /\ l.containsArg = <<>> /\ l.idRef = <<>>
                   /\ l.classRefs = <<>>) =>
                  OnlyField(target, "text",
                            Join(SubSeq(l.words, 1, Min(6, Len(l.words)))))

\* a locator that matches the text()= rule, the id rule and the fallback
\* yields the text alone
C25_Witness ==
    /\ pc = "hinted"
    /\ locator.textEq # <<>> /\ locator.idRef # <<>> /\ locator.words # <<>>
    /\ target.text = locator.textEq /\ target.id = <<>>

(***************************************************************************)
(* The wrapped lookups: BasePage.find (aut/base/base_page.py) and the      *)
(* find_with_heal helper the driver fixtures attach to the driver.         *)
(***************************************************************************)
\* a wrapped lookup: the entry point, the heal argument, and whether the
\* driver carries the attribute find_with_heal (every driver of the fixtures
\* does; BasePage takes any WebDriver)
Wrappers ==
    { w \in [via : {"BasePage.find", "driver.find_with_heal"},
             heal : BOOLEAN, patched : BOOLEAN] :
        w.via = "driver.find_with_heal" => w.patched }

InitWrapper ==
    /\ InitCall /\ InitNoScore
    /\ InitNoRaise /\ InitNoLogger /\ InitNoReader /\ InitNoRunner
    /\ wrapper \in Wrappers

\* mutation: find_with_auto_heal ignores its heal argument
ReachesHealing_IgnoresHeal(w) == w.patched

\* the wrapped lookup reaches find_with_healing: BasePage.find passes on to
\* find_with_heal if the driver has it, and find_with_auto_heal heals if heal
ReachesHealing(w) == w.patched /\ w.heal

\* return find_with_healing(drv, by, locator, **kwargs)
WrappedHealing ==
    /\ pc = "idle"
    /\ ReachesHealing(wrapper)
    /\ StartCall

\* return drv.find_element(by, locator), which returns an element
WrappedPlainFound ==
    /\ pc = "idle"
    /\ ~ReachesHealing(wrapper)
    /\ driverCalls' = <<FindCall(by, "locator", "found")>>
    /\ returned' = "direct"
    /\ pc' = "done"
    /\ UNCHANGED <<page, by, locator, min_score, persist, now, directErr, candidates,
                   xpath, raised, logged, healLog,
                   logAtCall, replayVars, workerVars, scoreVars, toolVars>>

\* return drv.find_element(by, locator), which raises: nothing catches it
WrappedPlainFails ==
    /\ pc = "idle"
    /\ ~ReachesHealing(wrapper)
    /\ \E failure \in LookupFailures :
          /\ driverCalls' = <<FindCall(by, "locator", failure)>>
          /\ raised' = IF failure = "notfound"
                       THEN "the driver's NoSuchElementException"
                       ELSE "the driver's error"
    /\ pc' = "done"
    /\ UNCHANGED <<page, by, locator, min_score, persist, now, directErr, candidates,
                   xpath, returned, logged, healLog,
                   logAtCall, replayVars, workerVars, scoreVars, toolVars>>

NextWrapper == WrappedHealing \/ WrappedPlainFound \/ WrappedPlainFails \/ StepCall

SpecWrapper == InitWrapper /\ [][NextWrapper]_vars

\* the wrapped lookup made the plain exact lookup and nothing else
PlainLookupOnly ==
    /\ now = 0
    /\ Len(driverCalls) = 1
    /\ driverCalls[1].op = "find_element" /\ driverCalls[1].by = by
    /\ driverCalls[1].what = "locator"
    /\ candidates = <<>> /\ xpath = NoXpath
    /\ healLog = <<>> /\ logged = "no"
    /\ driverCalls[1].result = "found" => (returned = "direct" /\ raised = "none")
    /\ driverCalls[1].result = "notfound" =>
          (returned = "none" /\ raised = "the driver's NoSuchElementException")
    /\ driverCalls[1].result = "error" =>
          (returned = "none" /\ raised = "the driver's error")

\* with heal=False nothing but lookups by the caller's locator is ever done
NeverHeals ==
    /\ now = 0
    /\ SnapshotCalls = {}
    /\ candidates = <<>>
    /\ healLog = <<>> /\ logged = "no"

(***************************************************************************)
(* C28 as stated.  A lookup through BasePage.find or driver.find_with_heal *)
(* with heal=False makes the plain exact lookup only; with heal=True the   *)
(* same call goes through find_with_healing.                               *)
(***************************************************************************)
C28_HealFlagDecides ==
    /\ ~wrapper.heal => NeverHeals
    /\ pc = "done" => IF wrapper.heal THEN now = 1 ELSE PlainLookupOnly

(***************************************************************************)
(* C28.  A lookup through BasePage.find or driver.find_with_heal with      *)
(* heal=False makes the plain exact lookup only: no page source is read,   *)
(* no candidate is selected, the heal log is not written, and the failure  *)
(* of the lookup reaches the caller as the driver raised it.  With         *)
(* heal=True the call goes through find_with_healing if the driver carries *)
(* find_with_heal; BasePage.find on a driver without it makes the plain    *)
(* exact lookup only, whatever heal is.                                    *)
(***************************************************************************)
C28_HealFlagDecidesOnPatchedDriver ==
    /\ ~wrapper.heal => NeverHeals
    /\ pc = "done" =>
          IF wrapper.heal /\ wrapper.patched THEN now = 1 ELSE PlainLookupOnly

\* heal=False through BasePage.find on a driver of the fixtures: the exact
\* lookup did not find the element and the caller got the driver's exception
C28_Witness ==
    /\ wrapper = [via |-> "BasePage.find", heal |-> FALSE, patched |-> TRUE]
    /\ pc = "done" /\ raised = "the driver's NoSuchElementException"
    /\ Len(driverCalls) = 1

(***************************************************************************)
(* The heal log as a file: _log_heal writes json.dumps(entry) and a line   *)
(* feed, read_heal_log reads it back line by line with json.loads.  A JSON *)
(* value is [str |-> characters], [num |-> the token repr gives the float] *)
(* or [obj |-> the <<key, value>> pairs in order].                         *)
(***************************************************************************)
Str(chars) == [str |-> chars]

Num(token) == [num |-> token]

Obj(members) == [obj |-> members]

\* mutation: strings are written as they are
EscapeChar_Raw(c) == <<c>>

\* json.dumps of one character of a string
EscapeChar(c) ==
    CASE c = "\"" -> <<"\\", "\"">>
      [] c = "\\" -> <<"\\", "\\">>
      [] c = "\n" -> <<"\\", "n">>
      [] OTHER -> <<c>>

RECURSIVE Escape(_)
Escape(chars) ==
    IF chars = <<>> THEN <<>> ELSE EscapeChar(Head(chars)) \o Escape(Tail(chars))

Quoted(chars) == <<"\"">> \o Escape(chars) \o <<"\"">>

\* json.dumps(value, ensure_ascii=False): the separators are ", " and ": "
RECURSIVE dumps(_)
RECURSIVE DumpMembers(_)
DumpMembers(members) ==
    IF members = <<>> THEN <<>>
    ELSE Quoted(Head(members)[1]) \o <<":", " ">> \o dumps(Head(members)[2])
         \o (IF Len(members) = 1 THEN <<>> ELSE <<",", " ">> \o DumpMembers(Tail(members)))

dumps(value) ==
    IF "str" \in DOMAIN value THEN Quoted(value.str)
    ELSE IF "num" \in DOMAIN value THEN value.num
    ELSE <<"{">> \o DumpMembers(value.obj) \o <<"}">>

\* json.loads: what a parse yields, the value and the position after it, or a
\* failure (json.JSONDecodeError)
Parsed(value, next) == [ok |-> TRUE, value |-> value, next |-> next]

ParseError == [ok |-> FALSE, value |-> Str(<<>>), next |-> 0]

RECURSIVE SkipSpace(_, _)
SkipSpace(s, i) ==
    IF i <= Len(s) /\ s[i] \in {" ", "\n"} THEN SkipSpace(s, i + 1) ELSE i

\* the characters of a string up to its closing quote, escapes decoded
RECURSIVE ParseChars(_, _, _)
ParseChars(s, i, acc) ==
    IF i > Len(s) THEN ParseError
    ELSE IF s[i] = "\"" THEN Parsed(Str(acc), i + 1)
    ELSE IF s[i] = "\n" THEN ParseError
    ELSE IF s[i] = "\\"
    THEN IF i + 1 > Len(s) THEN ParseError
         ELSE IF s[i + 1] = "\"" THEN ParseChars(s, i + 2, Append(acc, "\""))
         ELSE IF s[i + 1] = "\\" THEN ParseChars(s, i + 2, Append(acc, "\\"))
         ELSE IF s[i + 1] = "n" THEN ParseChars(s, i + 2, Append(acc, "\n"))
         ELSE ParseError
    ELSE ParseChars(s, i + 1, Append(acc, s[i]))

ParseString(s, i) ==
    IF i <= Len(s) /\ s[i] = "\"" THEN ParseChars(s, i + 1, <<>>) ELSE ParseError

RECURSIVE ParseDigits(_, _, _)
ParseDigits(s, i, acc) ==
    IF i <= Len(s)
       /\ s[i] \in {"0", "1", "2", "3", "4", "5", "6", "7", "8", "9", ".", "-", "e", "+"}
    THEN ParseDigits(s, i + 1, Append(acc, s[i]))
    ELSE IF acc = <<>> THEN ParseError ELSE Parsed(Num(acc), i)

RECURSIVE ParseValue(_, _)
RECURSIVE ParseMembers(_, _, _)
ParseMembers(s, i, acc) ==
    LET key == ParseString(s, SkipSpace(s, i))
        colon == SkipSpace(s, key.next)
        val == ParseValue(s, colon + 1)
        after == SkipSpace(s, val.next)
    IN  IF ~key.ok THEN ParseError
        ELSE IF colon > Len(s) \/ s[colon] # ":" THEN ParseError
        ELSE IF ~val.ok \/ after > Len(s) THEN ParseError
        ELSE IF s[after] = "}"
        THEN Parsed(Obj(Append(acc, <<key.value.str, val.value>>)), after + 1)
        ELSE IF s[after] = ","
        THEN ParseMembers(s, after + 1, Append(acc, <<key.value.str, val.value>>))
        ELSE ParseError

ParseValue(s, i) ==
    LET j == SkipSpace(s, i)
    IN  IF j > Len(s) THEN ParseError
        ELSE IF s[j] = "\"" THEN ParseString(s, j)
        ELSE IF s[j] = "{"
        THEN IF SkipSpace(s, j + 1) <= Len(s) /\ s[SkipSpace(s, j + 1)] = "}"
             THEN Parsed(Obj(<<>>), SkipSpace(s, j + 1) + 1)
             ELSE ParseMembers(s, j + 1, <<>>)
        ELSE ParseDigits(s, j, <<>>)

\* json.loads(line): one value, with nothing but white space after it
loads(line) ==
    LET r == ParseValue(line, 1)
    IN  IF r.ok /\ SkipSpace(line, r.next) > Len(line) THEN r ELSE ParseError

\* for line in fh: the lines of the text, each with its line feed
RECURSIVE LinesFrom(_, _)
LinesFrom(text, i) ==
    LET feeds == { j \in i..Len(text) : text[j] = "\n" }
        feed == CHOOSE j \in feeds : \A k \in feeds : j <= k
    IN  IF i > Len(text) THEN <<>>
        ELSE IF feeds = {} THEN <<SubSeq(text, i, Len(text))>>
        ELSE <<SubSeq(text, i, feed)>> \o LinesFrom(text, feed + 1)

Lines(text) == LinesFrom(text, 1)

\* mutation: the limit is compared with i > limit
RECURSIVE ReadLines_OneMore(_, _, _, _)
ReadLines_OneMore(lines, i, limited, limit) ==
    IF i >= Len(lines) \/ (limited /\ i > limit) THEN <<>>
    ELSE LET r == loads(lines[i + 1])
         IN  (IF r.ok THEN <<r.value>> ELSE <<>>)
             \o ReadLines_OneMore(lines, i + 1, limited, limit)

\* the loop of read_heal_log from the line of index i on
RECURSIVE ReadLines(_, _, _, _)
ReadLines(lines, i, limited, limit) ==
    IF i >= Len(lines) \/ (limited /\ i >= limit) THEN <<>>
    ELSE LET r == loads(lines[i + 1])
         IN  (IF r.ok THEN <<r.value>> ELSE <<>>)
             \o ReadLines(lines, i + 1, limited, limit)

\* read_heal_log(limit): limited is false when limit is None
read_heal_log(file, limited, limit) ==
    IF ~file.exists THEN <<>> ELSE ReadLines(Lines(file.text), 0, limited, limit)

\* repr of the floats time.time() returns at the model's instants
TimeToken(t) == <<(<<"0", "1", "2", "3", "4", "5", "6", "7", "8", "9">>)[t + 1], ".", "0">>

\* the heals logged, each the locator, the text of the signature and repr of
\* the score: the strings are plain, or hold a quote, a backslash, a backslash
\* before an n, a line feed
LoggedHeals ==
    { [locator |-> <<"a">>,                 text |-> <<>>,           score |-> <<"1", ".", "0">>],
      [locator |-> <<"a", "'", "\"", "b">>, text |-> <<>>,           score |-> <<"0", ".", "4", "5">>],
      [locator |-> <<"a", "\\">>,           text |-> <<"\\", "\"">>, score |-> <<"1", ".", "0">>],
      [locator |-> <<"\\", "n">>,           text |-> <<"a">>,        score |-> <<"0", ".", "4", "5">>],
      [locator |-> <<"a", "\n", "b">>,      text |-> <<"\\", "\"">>, score |-> <<"1", ".", "0">>] }

\* the keys of an entry, as the characters json.dumps writes
JsonKeys ==
    [time |-> <<"t", "i", "m", "e">>,
     original |-> <<"o", "r", "i", "g", "i", "n", "a", "l">>,
     healed |-> <<"h", "e", "a", "l", "e", "d">>,
     score |-> <<"s", "c", "o", "r", "e">>,
     by |-> <<"b", "y">>,
     locator |-> <<"l", "o", "c", "a", "t", "o", "r">>,
     xpath |-> <<"x", "p", "a", "t", "h">>,
     signature |-> <<"s", "i", "g", "n", "a", "t", "u", "r", "e">>,
     text |-> <<"t", "e", "x", "t">>]

\* the entry _log_heal builds for a heal by the synthesized locator, as a JSON
\* value (of the signature the text alone)
LogEntry(t, locator_str, text, score) ==
    Obj(<< <<JsonKeys.time, Num(TimeToken(t))>>,
           <<JsonKeys.original, Obj(<< <<JsonKeys.by, Str(<<"i", "d">>)>>,
                                  <<JsonKeys.locator, Str(locator_str)>> >>)>>,
           <<JsonKeys.healed, Obj(<< <<JsonKeys.xpath, Str(<<"/", "/", "a">>)>>,
                                <<JsonKeys.signature, Obj(<< <<JsonKeys.text, Str(text)>> >>)>> >>)>>,
           <<JsonKeys.score, Num(score)>> >>)

\* the file is missing and nothing has been read
InitLog ==
    /\ InitCall /\ InitNoScore
    /\ InitNoRaise /\ InitNoLogger /\ InitNoWrapper /\ InitNoReader /\ InitNoRunner
    /\ page = <<>> /\ by = "xpath"

\* a heal with persist set: _log_heal appends the line, or the write raises
\* and is swallowed
LogHeal ==
    /\ now < MaxHeals
    /\ now' = now + 1
    /\ \E heal \in LoggedHeals, sinkOk \in BOOLEAN :
          LET entry == LogEntry(now', heal.locator, heal.text, heal.score)
          IN  /\ healLog' = IF sinkOk THEN Append(healLog, entry) ELSE healLog
              /\ disk' = IF sinkOk
                         THEN [exists |-> TRUE,
                               text |-> disk.text \o dumps(entry) \o <<"\n">>]
                         ELSE disk
              /\ logged' = IF sinkOk THEN "written" ELSE "failed"
    /\ UNCHANGED <<page, by, locator, min_score, persist, pc, driverCalls, directErr,
                   candidates, xpath, returned, raised, logAtCall,
                   replayVars, workerVars, scoreVars,
                   raising, loggers, got, wrapper, entries, run>>

\* entries = read_heal_log() or read_heal_log(limit=k)
ReadLog ==
    /\ \E limited \in BOOLEAN, limit \in 0..(MaxHeals + 1) :
          /\ limited \/ limit = 0
          /\ entries' = [done |-> TRUE, limited |-> limited, limit |-> limit,
                         heals |-> Len(healLog),
                         result |-> read_heal_log(disk, limited, limit)]
    /\ UNCHANGED <<page, by, locator, min_score, persist, pc, now, driverCalls, directErr,
                   candidates, xpath, returned, raised, logged, healLog, logAtCall,
                   replayVars, workerVars, scoreVars,
                   raising, loggers, got, wrapper, disk, run>>

NextLog == LogHeal \/ ReadLog

SpecLog == InitLog /\ [][NextLog]_vars

Stamps == {"t1", "t2"}

LogDirs == { <<"logs">>, <<"logs", "t1">>, <<"other">> }

Levels == {"INFO", "debug", "verbose"}

\* getattr(logging, level.upper(), logging.INFO)
LevelOf(level) ==
    CASE level = "INFO" -> "INFO"
      [] level = "debug" -> "DEBUG"
      [] OTHER -> "INFO"

\* file_dir / "suite.log": the directory is log_dir if its last component is ts
\* and log_dir / ts if not
FilePath(log_dir, ts) ==
    (IF log_dir[Len(log_dir)] = ts THEN log_dir ELSE Append(log_dir, ts))
    \o <<"suite.log">>

\* logging.getLogger(logger_name) has handlers already
HasHandlers(ts) == ts \in DOMAIN loggers /\ loggers[ts].handlers # <<>>

\* the registry with this logger in this state
WithLogger(ts, logger) ==
    [name \in DOMAIN loggers \cup {ts} |-> IF name = ts THEN logger ELSE loggers[name]]

InitLogger ==
    /\ InitCall /\ InitNoScore
    /\ InitNoRaise /\ InitNoLogger /\ InitNoWrapper /\ InitNoReader /\ InitNoRunner
    /\ page = <<>> /\ by = "xpath"

\* what get_logger leaves alone
LoggerFrame ==
    UNCHANGED <<page, by, locator, min_score, persist, pc, now, driverCalls, directErr,
                candidates, xpath, returned, raised, logged, healLog, logAtCall,
                replayVars, workerVars, scoreVars, raising, wrapper, disk, entries, run>>

\* file_dir.mkdir(parents=True, exist_ok=True) raises
GetLoggerMkdirFails ==
    /\ \E ts \in Stamps, log_dir \in LogDirs, level \in Levels : got' = "raised"
    /\ loggers' = loggers
    /\ LoggerFrame

\* if logger.handlers: return logger
GetLoggerAgain ==
    /\ \E ts \in Stamps, log_dir \in LogDirs, level \in Levels :
          /\ HasHandlers(ts)
          /\ got' = ts
    /\ loggers' = loggers
    /\ LoggerFrame

\* the level is set and the console handler added, then logging.FileHandler
\* raises (the file cannot be opened)
GetLoggerFileFails ==
    /\ \E ts \in Stamps, log_dir \in LogDirs, level \in Levels :
          /\ ~HasHandlers(ts)
          /\ loggers' = WithLogger(ts, [handlers |-> <<"console">>,
                                        level |-> LevelOf(level),
                                        propagate |-> TRUE,
                                        file |-> <<>>])
    /\ got' = "raised"
    /\ LoggerFrame

\* the level is set, the console and the file handler are added and propagate
\* is cleared
GetLoggerFirst ==
    /\ \E ts \in Stamps, log_dir \in LogDirs, level \in Levels :
          /\ ~HasHandlers(ts)
          /\ loggers' = WithLogger(ts, [handlers |-> <<"console", "file">>,
                                        level |-> LevelOf(level),
                                        propagate |-> FALSE,
                                        file |-> FilePath(log_dir, ts)])
          /\ got' = ts
    /\ LoggerFrame

NextLogger ==
    GetLoggerMkdirFails \/ GetLoggerAgain \/ GetLoggerFileFails \/ GetLoggerFirst

SpecLogger == InitLogger /\ [][NextLogger]_vars

(***************************************************************************)
(* C21 as stated.  After any number of get_logger calls with the same ts   *)
(* the logger returned is the one logger of that ts and carries exactly    *)
(* one console handler and one file handler, and it does not pass its      *)
(* lines on to the handlers of a parent, so no line is duplicated.         *)
(***************************************************************************)
C21_OneConsoleOneFileHandler ==
    got \in DOMAIN loggers =>
        /\ loggers[got].handlers = <<"console", "file">>
        /\ ~loggers[got].propagate

(***************************************************************************)
(* The runner (aut/runner.py, main): the pytest command, the invocations   *)
(* of pytest and the status written to the manifest.  An invocation is the *)
(* command run and how pytest exited: "0", "1" (tests failed), "4" (usage  *)
(* error), or "raised" when subprocess.run raised.                         *)
(***************************************************************************)
\* the arguments and the configuration of a run: --dry-run, --workers,
\* execution.workers ("unset" when the key is missing), execution.parallel
\* and the tests selected
RunnerArgs ==
    [dry_run : BOOLEAN,
     workers : {"", "auto", "2"},
     cfg_workers : {"unset", "", "3"},
     parallel : BOOLEAN,
     tests : {<<>>, <<"test_a">>, <<"test_a", "test_b">>}]

\* workers_cfg: --workers overrides execution.workers, whose default is "auto"
WorkersCfg(args) ==
    IF args.workers # "" THEN args.workers
    ELSE IF args.cfg_workers = "unset" THEN "auto"
    ELSE args.cfg_workers

\* pytest_cmd
PytestCmd(args) ==
    <<"python", "-m", "pytest", "-q", "--disable-warnings">>
    \o (IF args.parallel \/ WorkersCfg(args) # ""
        THEN IF WorkersCfg(args) \in {"auto", ""}
             THEN <<"-n", "auto">>
             ELSE <<"-n", WorkersCfg(args)>>
        ELSE <<>>)
    \o args.tests
    \o <<"--alluredir", "test_report_dir", "--cache-dir", "pytest_cache_dir">>

\* pytest_cmd_no_cache: the command without --cache-dir and its value
RECURSIVE WithoutCacheDir(_)
WithoutCacheDir(cmd) ==
    IF cmd = <<>> THEN <<>>
    ELSE IF Head(cmd) \in {"--cache-dir", "pytest_cache_dir"} THEN WithoutCacheDir(Tail(cmd))
    ELSE <<Head(cmd)>> \o WithoutCacheDir(Tail(cmd))

InitRunner ==
    /\ InitCall /\ InitNoScore
    /\ InitNoRaise /\ InitNoLogger /\ InitNoWrapper /\ InitNoReader /\ InitNoRunner
    /\ page = <<>> /\ by = "xpath"

\* what the runner leaves alone
RunnerFrame ==
    UNCHANGED <<page, by, locator, min_score, persist, pc, now, driverCalls, directErr,
                candidates, xpath, returned, raised, logged, healLog, logAtCall,
                replayVars, workerVars, scoreVars,
                raising, loggers, got, wrapper, disk, entries>>

\* main(argv) up to the manifest with status "not_started"
RunnerStart ==
    /\ run = NoRun
    /\ \E args \in RunnerArgs :
          run' = [pc |-> "selected", args |-> args, invoked |-> <<>>,
                  status |-> "not_started", written |-> FALSE]
    /\ RunnerFrame

\* if args.dry_run: the manifest is written with "dry_run" and main returns
RunnerDryRun ==
    /\ run.pc = "selected" /\ run.args.dry_run
    /\ run' = [run EXCEPT !.pc = "returned", !.status = "dry_run", !.written = TRUE]
    /\ RunnerFrame

\* the first subprocess.run(pytest_cmd, ...), output captured
RunnerFirstRun ==
    /\ run.pc = "selected" /\ ~run.args.dry_run
    /\ \E exit \in {"0", "1", "4", "raised"}, rejects_cache_dir \in BOOLEAN :
          /\ rejects_cache_dir => exit = "4"
          /\ run' = [run EXCEPT
                       !.invoked = <<[cmd |-> PytestCmd(run.args), exit |-> exit]>>,
                       !.pc = IF rejects_cache_dir THEN "retry" ELSE "written",
                       !.status = IF exit = "raised" THEN "error"
                                  ELSE IF exit = "0" THEN "passed"
                                  ELSE IF rejects_cache_dir THEN "passed"
                                  ELSE "failed",
                       !.written = ~rejects_cache_dir]
    /\ RunnerFrame

\* subprocess.run(pytest_cmd_no_cache, ..., check=False), then
\* status = "failed" if proc.returncode != 0 else "passed", proc being the
\* first run
RunnerRetry ==
    /\ run.pc = "retry"
    /\ \E exit \in {"0", "1", "raised"} :
          run' = [run EXCEPT
                    !.invoked = Append(run.invoked,
                                       [cmd |-> WithoutCacheDir(PytestCmd(run.args)),
                                        exit |-> exit]),
                    !.pc = "written",
                    !.status = IF exit = "raised" THEN "error"
                               ELSE IF run.invoked[1].exit # "0" THEN "failed"
                               ELSE "passed",
                    !.written = TRUE]
    /\ RunnerFrame

NextRunner == RunnerStart \/ RunnerDryRun \/ RunnerFirstRun \/ RunnerRetry

SpecRunner == InitRunner /\ [][NextRunner]_vars

(***************************************************************************)
(* C30 as stated.  The status written to the manifest is that of the       *)
(* pytest invocation whose results are reported, the last one made:        *)
(* "passed" when it exited 0 and "failed" when it exited non-zero, also    *)
(* when pytest was run again without --cache-dir.  A dry run invokes       *)
(* pytest never and records "dry_run".                                     *)
(***************************************************************************)
C30_StatusOfReportedInvocation ==
    (run.pc # "none" /\ run.written) =>
        IF run.args.dry_run
        THEN run.status = "dry_run" /\ run.invoked = <<>>
        ELSE LET reported == run.invoked[Len(run.invoked)]
             IN  /\ reported.exit = "0" => run.status = "passed"
                 /\ reported.exit \in {"1", "4"} => run.status = "failed"

=============================================================================
